---- MODULE Spec2Model ----
(***************************************************************************)
(* A model of the document-grounded chat assistant: the data-access layer  *)
(* (users, chat_sessions, messages, documents), password hashing, the      *)
(* multi-user chat handlers, the single-user chat handlers and the remote  *)
(* file-activation poll.                                                    *)
(*                                                                         *)
(* Text is a sequence of one-character strings, so that strip, split and   *)
(* regular-expression matching are computed character by character.        *)
(***************************************************************************)
EXTENDS Integers, Sequences, FiniteSets, TLC

\* ------------------------------------------------------------------ bounds
\* Largest value of the database clock (CURRENT_TIMESTAMP) the model reaches.
MaxClock == 4
\* Most rows the chat_sessions table receives.
MaxSessions == 2
\* Most rows the messages table receives.
MaxMessages == 1
\* Most rows the documents table receives.
MaxDocuments == 1
\* Most PROCESSING reads a polled file reports before its final state.
MaxProcessing == 3
\* Most files wait_for_files_active is given.
MaxFiles == 2

\* --------------------------------------------------------------- constants
\* secrets.token_hex(nbytes=16): 16 random bytes
SaltBytes == 16
\* len(password) < 8
MinPasswordLen == 8
\* time.sleep(2)
PollSleepSeconds == 2
\* sessions[:10]
PanelRows == 10

VARIABLES
    \* password hashing (src/db/models/base.py), exercised on drawn inputs
    pw_password, pw_candidate, pw_stored, pw_origin, pw_result, pw_pc,
    \* the database: its tables, its id sequences and its clock
    db,
    \* the last data-access call: its name, arguments and result
    ret,
    \* each database connection's place in a call of several statements
    conn,
    \* config.DB_URL: whether the environment sets it
    DB_URL,
    \* cl.user_session of each browser session: its keys and their values
    user_session,
    \* the files under public/: (user id, chat session id, file name)
    public,
    \* the last event handled: the handler, its browser session, its input,
    \* the messages it sent and whether it ended by raising
    handled,
    \* wait_for_files_active: the files it was given, the file it is at, its
    \* place in the loop, and the sleeps and status fetches it has made
    poll,
    \* cl.user_session of the single-user app's browser session, with the
    \* files under its public directory
    single_user,
    \* the event loop: which handler, if any, holds its thread inside a
    \* blocking call, each browser session's running handler and its events
    loop,
    \* connection.py's _pool and the get_pool and close_pool calls under way
    pool,
    \* a call of format_response_with_citations: its arguments, its
    \* answer_text and how far it has got
    fmt,
    \* the chat-management messages each browser session shows: the header
    \* and the rows that carry the Load, Rename and Delete buttons
    screen

pwvars == <<pw_password, pw_candidate, pw_stored, pw_origin, pw_result, pw_pc>>

dbvars == <<db, ret, conn>>

appvars == <<DB_URL, user_session, public, handled>>

ragvars == <<poll, single_user>>

runvars == <<loop, pool, fmt, screen>>

vars == <<pwvars, dbvars, appvars, ragvars, runvars>>

\* everything but the database, but the password exercise, but the handlers
notdb == <<pwvars, appvars, ragvars, runvars>>
notpw == <<dbvars, appvars, ragvars, runvars>>
notapp == <<pwvars, conn, ragvars, runvars>>

\* ------------------------------------------------------------------- text
\* c repeated n times
Rep(c, n) == [i \in 1..n |-> c]

\* number of occurrences of character c in s
CountOf(c, s) == Cardinality({i \in 1..Len(s) : s[i] = c})

\* str.strip(): s without its leading and trailing blanks
Strip(s) ==
    LET inked == {i \in 1..Len(s) : s[i] # " "}
    IN  IF inked = {} THEN <<>>
        ELSE SubSeq(s, CHOOSE i \in inked : \A j \in inked : i <= j,
                       CHOOSE i \in inked : \A j \in inked : i >= j)

\* the positions of character c in s
Positions(c, s) == {i \in 1..Len(s) : s[i] = c}

\* the position of the k-th occurrence of c in s; 0 before the first and
\* Len(s) + 1 after the last
SepAt(s, c, k) ==
    LET P == Positions(c, s)
    IN  IF k = 0 THEN 0
        ELSE IF k > Cardinality(P) THEN Len(s) + 1
        ELSE CHOOSE p \in P : Cardinality({q \in P : q < p}) = k - 1

\* str.split(sep=c): the parts of s between the occurrences of c
Split(s, c) ==
    [k \in 1..(CountOf(c, s) + 1) |->
        SubSeq(s, SepAt(s, c, k - 1) + 1, SepAt(s, c, k) - 1)]

\* ---------------------------------------------------- src/db/models/base.py
\* Two hexadecimal digits for each character the model's text uses.
HexOf(ch) ==
    CASE ch = "a" -> <<"6", "1">>
      [] ch = "b" -> <<"6", "2">>
      [] ch = "c" -> <<"6", "3">>
      [] ch = "x" -> <<"7", "8">>
      [] ch = "0" -> <<"3", "0">>
      [] ch = "f" -> <<"6", "6">>
      [] ch = "$" -> <<"2", "4">>
      [] ch = "@" -> <<"4", "0">>
      [] ch = "." -> <<"2", "e">>
      [] ch = " " -> <<"2", "0">>
      [] OTHER -> <<"3", "f">>

\* hashlib.sha256(...).hexdigest(), modelled as an injective map into
\* hexadecimal text: the hexadecimal encoding of the input itself.
sha256_hexdigest(s) ==
    [i \in 1..(2 * Len(s)) |-> HexOf(s[(i + 1) \div 2])[((i - 1) % 2) + 1]]

\* secrets.token_hex(nbytes=16): 32 hexadecimal characters; two of them.
Salts == {Rep("0", 2 * SaltBytes), Rep("f", 2 * SaltBytes)}

\* hash_password with the salt the random source returned
hash_password(password, salt) ==
    salt \o <<"$">> \o sha256_hexdigest(password \o salt)

\* The unpacking "salt, pwd_hash = ..." raises ValueError unless the split
\* has exactly two parts; the except clause turns that into False.
verify_password_drop_salt(password, password_hash) ==
    LET parts == Split(password_hash, "$")
    IN  IF Len(parts) # 2 THEN FALSE
        ELSE sha256_hexdigest(password) = parts[2]

verify_password(password, password_hash) ==
    LET parts == Split(password_hash, "$")
    IN  IF Len(parts) # 2 THEN FALSE
        ELSE sha256_hexdigest(password \o parts[1]) = parts[2]

\* ------------------------------------------------- src/db/connection.py
\* Python's None where an id is expected; SERIAL ids start at 1.
None == 0

\* The schema init_database creates, with no rows: every table is a function
\* from the ids of its rows, seq holds each SERIAL sequence's last value and
\* now is CURRENT_TIMESTAMP.
EmptyDb ==
    [ users |-> <<>>, chat_sessions |-> <<>>, messages |-> <<>>,
      documents |-> <<>>,
      seq |-> [users |-> 0, chat_sessions |-> 0, messages |-> 0, documents |-> 0],
      now |-> 0 ]

NoCall ==
    [op |-> "none", args |-> <<>>, result |-> None, raised |-> FALSE, flip |-> FALSE]

\* the record of a call that returned r.result or raised; flip changes with
\* every call that ends, so that the step ending a call can be told
Call(op, args, r) ==
    [op |-> op, args |-> args, result |-> r.result, raised |-> r.raised,
     flip |-> ~ret.flip]

\* this step ends a data-access call
CallEnds == ret'.flip # ret.flip

\* The connections session handlers hold at one time.
Conns == {"c1", "c2"}

Idle == [pc |-> "idle", session_id |-> None, user_id |-> None, result |-> None]

IdleConns == [c \in Conns |-> Idle]

\* What a data-access call hands back: the database after it, its result,
\* and whether it raised instead of returning.
Returned(d, result) == [db |-> d, result |-> result, raised |-> FALSE]
Raised(d) == [db |-> d, result |-> None, raised |-> TRUE]

\* table t with row r added under id
Insert(t, id, r) == [i \in DOMAIN t \cup {id} |-> IF i = id THEN r ELSE t[i]]

\* table t without the rows whose ids are in gone
Delete(t, gone) == [i \in DOMAIN t \ gone |-> t[i]]

\* ------------------------------------------------ src/db/models/user.py
\* users.username and users.email are UNIQUE: the INSERT raises
\* UniqueViolationError when either is taken.
UniqueViolation(d, username, email) ==
    \E i \in DOMAIN d.users :
        d.users[i].username = username \/ d.users[i].email = email

User_create_username_only(d, username, email, password, salt) ==
    IF \E i \in DOMAIN d.users : d.users[i].username = username
    THEN Returned(d, None)
    ELSE LET id == d.seq.users + 1
         IN  Returned(
                 [d EXCEPT !.users = Insert(@, id,
                               [username |-> username, email |-> email,
                                password_hash |-> hash_password(password, salt),
                                last_login |-> None]),
                           !.seq.users = id],
                 id)

\* User.create: the id of the new row, or None on a unique violation.
User_create(d, username, email, password, salt) ==
    IF UniqueViolation(d, username, email)
    THEN Returned(d, None)
    ELSE LET id == d.seq.users + 1
         IN  Returned(
                 [d EXCEPT !.users = Insert(@, id,
                               [username |-> username, email |-> email,
                                password_hash |-> hash_password(password, salt),
                                last_login |-> None]),
                           !.seq.users = id],
                 id)

\* ----------------------------------------- src/db/models/chat_session.py
\* A fetchrow that found nothing.
NoRow == [id |-> None]

\* CURRENT_TIMESTAMP of the next statement: the clock moves with every
\* statement that reads it.
Stamp(d) == d.now + 1

\* ChatSession.create: chat_sessions.user_id REFERENCES users(id), so the
\* INSERT raises for a user that does not exist.
ChatSession_create(d, user_id, title) ==
    IF user_id \notin DOMAIN d.users THEN Raised(d)
    ELSE LET id == d.seq.chat_sessions + 1
         IN  Returned(
                 [d EXCEPT !.chat_sessions = Insert(@, id,
                               [user_id |-> user_id, title |-> title,
                                updated_at |-> Stamp(d), is_deleted |-> FALSE]),
                           !.seq.chat_sessions = id,
                           !.now = Stamp(d)],
                 id)

\* the row as a SELECT hands it back
SessionRow(d, id) ==
    [id |-> id, user_id |-> d.chat_sessions[id].user_id,
     title |-> d.chat_sessions[id].title,
     updated_at |-> d.chat_sessions[id].updated_at]

ChatSession_get_by_id_any_user(d, session_id, user_id) ==
    IF /\ session_id \in DOMAIN d.chat_sessions
       /\ ~d.chat_sessions[session_id].is_deleted
    THEN SessionRow(d, session_id)
    ELSE NoRow

\* ChatSession.get_by_id: WHERE id = $1 AND user_id = $2 AND is_deleted = FALSE
ChatSession_get_by_id(d, session_id, user_id) ==
    IF /\ session_id \in DOMAIN d.chat_sessions
       /\ d.chat_sessions[session_id].user_id = user_id
       /\ ~d.chat_sessions[session_id].is_deleted
    THEN SessionRow(d, session_id)
    ELSE NoRow

\* the ids in S, largest key first (ORDER BY ... DESC)
Descending(S, key) ==
    LET before(i) == {j \in S : key[j] > key[i] \/ (key[j] = key[i] /\ j > i)}
    IN  [k \in 1..Cardinality(S) |->
            CHOOSE i \in S : Cardinality(before(i)) = k - 1]

\* ChatSession.list_by_user: WHERE user_id = $1 AND is_deleted = FALSE
\* ORDER BY updated_at DESC
ChatSession_list_by_user(d, user_id) ==
    LET mine == {i \in DOMAIN d.chat_sessions :
                    /\ d.chat_sessions[i].user_id = user_id
                    /\ ~d.chat_sessions[i].is_deleted}
        ids == Descending(mine, [i \in mine |-> d.chat_sessions[i].updated_at])
    IN  [k \in 1..Len(ids) |-> SessionRow(d, ids[k])]

ChatSession_count_by_user_not_deleted(d, user_id) ==
    Cardinality({i \in DOMAIN d.chat_sessions :
                    /\ d.chat_sessions[i].user_id = user_id
                    /\ ~d.chat_sessions[i].is_deleted})

\* ChatSession.count_by_user: SELECT COUNT(*) ... WHERE user_id = $1
ChatSession_count_by_user(d, user_id) ==
    Cardinality({i \in DOMAIN d.chat_sessions :
                    d.chat_sessions[i].user_id = user_id})

\* ChatSession.update_title: WHERE id = $2 AND user_id = $3 AND
\* is_deleted = FALSE; the result is whether a row was updated.
ChatSession_update_title(d, session_id, user_id, new_title) ==
    IF /\ session_id \in DOMAIN d.chat_sessions
       /\ d.chat_sessions[session_id].user_id = user_id
       /\ ~d.chat_sessions[session_id].is_deleted
    THEN Returned(
             [d EXCEPT !.chat_sessions[session_id].title = new_title,
                       !.chat_sessions[session_id].updated_at = Stamp(d),
                       !.now = Stamp(d)],
             TRUE)
    ELSE Returned(d, FALSE)

ChatSession_delete_any_user(d, session_id, user_id) ==
    IF session_id \in DOMAIN d.chat_sessions
    THEN Returned(
             [d EXCEPT !.chat_sessions[session_id].is_deleted = TRUE,
                       !.chat_sessions[session_id].updated_at = Stamp(d),
                       !.now = Stamp(d)],
             TRUE)
    ELSE Returned(d, FALSE)

\* ChatSession.delete (soft): WHERE id = $1 AND user_id = $2
ChatSession_delete(d, session_id, user_id) ==
    IF /\ session_id \in DOMAIN d.chat_sessions
       /\ d.chat_sessions[session_id].user_id = user_id
    THEN Returned(
             [d EXCEPT !.chat_sessions[session_id].is_deleted = TRUE,
                       !.chat_sessions[session_id].updated_at = Stamp(d),
                       !.now = Stamp(d)],
             TRUE)
    ELSE Returned(d, FALSE)

\* the rows of table t that belong to chat session session_id
RowsOf(t, session_id) == {i \in DOMAIN t : t[i].chat_session_id = session_id}

hard_delete_verify_any_user(d, session_id, user_id) ==
    session_id \in DOMAIN d.chat_sessions

\* hard_delete, first statement: SELECT id ... WHERE id = $1 AND user_id = $2
hard_delete_verify(d, session_id, user_id) ==
    /\ session_id \in DOMAIN d.chat_sessions
    /\ d.chat_sessions[session_id].user_id = user_id

\* hard_delete, second statement: DELETE FROM documents
hard_delete_documents(d, session_id) ==
    [d EXCEPT !.documents = Delete(@, RowsOf(@, session_id))]

\* hard_delete, third statement: DELETE FROM messages
hard_delete_messages(d, session_id) ==
    [d EXCEPT !.messages = Delete(@, RowsOf(@, session_id))]

hard_delete_session_no_cascade(d, session_id, user_id) ==
    IF hard_delete_verify(d, session_id, user_id)
    THEN Returned([d EXCEPT !.chat_sessions = Delete(@, {session_id})], TRUE)
    ELSE Returned(d, FALSE)

\* hard_delete, fourth statement: DELETE FROM chat_sessions WHERE id = $1
\* AND user_id = $2. messages and documents REFERENCE chat_sessions(id) ON
\* DELETE CASCADE, so rows added to them since go with the session row.
hard_delete_session(d, session_id, user_id) ==
    IF hard_delete_verify(d, session_id, user_id)
    THEN Returned(
             [d EXCEPT !.chat_sessions = Delete(@, {session_id}),
                       !.messages = Delete(@, RowsOf(@, session_id)),
                       !.documents = Delete(@, RowsOf(@, session_id))],
             TRUE)
    ELSE Returned(d, FALSE)

\* ChatSession.hard_delete run without interruption
ChatSession_hard_delete(d, session_id, user_id) ==
    IF ~hard_delete_verify(d, session_id, user_id) THEN Returned(d, FALSE)
    ELSE hard_delete_session(
             hard_delete_messages(hard_delete_documents(d, session_id), session_id),
             session_id, user_id)

\* --------------------------------------------- src/db/models/message.py
\* Message.create, first statement: INSERT INTO messages; chat_session_id
\* REFERENCES chat_sessions(id), so it raises when the session row is gone.
Message_insert(d, chat_session_id, role, content) ==
    IF chat_session_id \notin DOMAIN d.chat_sessions THEN Raised(d)
    ELSE LET id == d.seq.messages + 1
         IN  Returned(
                 [d EXCEPT !.messages = Insert(@, id,
                               [chat_session_id |-> chat_session_id,
                                role |-> role, content |-> content,
                                created_at |-> Stamp(d)]),
                           !.seq.messages = id,
                           !.now = Stamp(d)],
                 id)

\* Message.create, second statement: UPDATE chat_sessions SET updated_at =
\* CURRENT_TIMESTAMP WHERE id = $1
Message_touch(d, chat_session_id) ==
    IF chat_session_id \in DOMAIN d.chat_sessions
    THEN [d EXCEPT !.chat_sessions[chat_session_id].updated_at = Stamp(d),
                   !.now = Stamp(d)]
    ELSE d

\* Message.create run without interruption
Message_create(d, chat_session_id, role, content) ==
    LET r == Message_insert(d, chat_session_id, role, content)
    IN  IF r.raised THEN r
        ELSE Returned(Message_touch(r.db, chat_session_id), r.result)

\* Message.list_by_session: ORDER BY created_at ASC
Message_list_by_session(d, chat_session_id) ==
    LET mine == RowsOf(d.messages, chat_session_id)
        ids == Descending(mine, [i \in mine |-> 0 - d.messages[i].created_at])
    IN  [k \in 1..Len(ids) |-> [id |-> ids[k], role |-> d.messages[ids[k]].role,
                                content |-> d.messages[ids[k]].content]]

\* -------------------------------------------- src/db/models/document.py
\* Document.create: INSERT INTO documents; chat_session_id REFERENCES
\* chat_sessions(id).
Document_create(d, chat_session_id, filename, file_path, gemini_file) ==
    IF chat_session_id \notin DOMAIN d.chat_sessions THEN Raised(d)
    ELSE LET id == d.seq.documents + 1
         IN  Returned(
                 [d EXCEPT !.documents = Insert(@, id,
                               [chat_session_id |-> chat_session_id,
                                filename |-> filename, file_path |-> file_path,
                                gemini_file |-> gemini_file,
                                uploaded_at |-> Stamp(d)]),
                           !.seq.documents = id,
                           !.now = Stamp(d)],
                 id)

\* Document.list_by_session: ORDER BY uploaded_at DESC
Document_list_by_session(d, chat_session_id) ==
    LET mine == RowsOf(d.documents, chat_session_id)
        ids == Descending(mine, [i \in mine |-> d.documents[i].uploaded_at])
    IN  [k \in 1..Len(ids) |-> d.documents[ids[k]]]

\* ------------------------------------------- cl.user_session (app_multiuser.py)
\* The browser sessions connected at one time.
Browsers == {"b1", "b2"}

\* Python's None where text is expected: no text of characters equals it.
NoneStr == <<"None">>

\* the truth value Python gives a text or None
Truthy(s) == s # NoneStr /\ s # <<>>

\* No remote chat handle.
NoChat == [files |-> <<>>, live |-> FALSE]

\* cl.user_session.get("user") of a browser session nobody is logged in to
NoUser ==
    [user_id |-> None, username |-> NoneStr, email_from_login |-> NoneStr,
     registration_pending |-> FALSE]

\* The keys of a browser session that has just connected as identity user:
\* every key but "user" is unset. stage tells whether on_chat_start has run.
FreshSession(user) ==
    [ stage |-> "connected", user |-> user, chat_profile |-> NoneStr,
      registration_step |-> "None", registration_username |-> NoneStr,
      registration_email |-> NoneStr, registration_password |-> NoneStr,
      chat_session_id |-> None, chat_title |-> NoneStr, gemini_chat |-> NoChat,
      pending_rename_session_id |-> None, pending_rename_old_title |-> NoneStr,
      management_messages |-> <<>> ]

NoEvent ==
    [name |-> "none", browser |-> "none", input |-> <<>>, session_id |-> None,
     sent |-> <<>>, raised |-> FALSE, flip |-> FALSE]

\* the record of the handler that just ran in browser session b on the
\* text input
Event(name, b, input, sent, raised) ==
    [name |-> name, browser |-> b, input |-> input, session_id |-> None,
     sent |-> sent, raised |-> raised, flip |-> ~handled.flip]

\* the record of the action callback that just ran in browser session b
\* with session_id in its payload
Callback(name, b, session_id, sent, raised) ==
    [name |-> name, browser |-> b, input |-> <<>>, session_id |-> session_id,
     sent |-> sent, raised |-> raised, flip |-> ~handled.flip]

\* this step is one run of a handler
HandlerRuns == handled'.flip # handled.flip

\* ------------------------------------------------ src/core/rag_manager.py
\* wait_for_files_active not called: no file, no fetch, no sleep.
NoPoll ==
    [files |-> <<>>, i |-> 1, pc |-> "idle", state |-> "none",
     fetches |-> <<>>, sleeps |-> <<>>, slept |-> 0, error |-> NoneStr]

\* ------------------------------------------------------------ src/app.py
\* The keys of a browser session of the single-user app that has just
\* connected, over the files the public directory holds.
FreshSingle(files) ==
    [stage |-> "connected", chat_session |-> NoChat,
     current_file_name |-> NoneStr, public |-> files]

\* ------------------------------------------------- the event loop
\* No handler is running, no event waits, and the thread is free.
NoTask == [pc |-> "idle", k |-> 0, kind |-> "none", file |-> <<>>]

NoLoop ==
    [thread |-> "free", task |-> [b \in Browsers |-> NoTask],
     sent |-> [b \in Browsers |-> <<>>], taken |-> [b \in Browsers |-> 0],
     done |-> [b \in Browsers |-> 0]]

\* ------------------------------------------------ src/db/connection.py
\* _pool is None, no pool was ever created, and no call is under way.
\* created counts the pools asyncpg.create_pool has made, and a pool is the
\* number it was made as; open are the pools not closed; made and given are
\* the pools created and the pools get_pool returned since close_pool last
\* cleared the handle; last is the call that ended last.
NoPoolCall == [op |-> "none", by |-> "none", raised |-> FALSE, flip |-> FALSE]

NoPool ==
    [_pool |-> None, created |-> 0, open |-> {}, calls |-> 0,
     made |-> {}, given |-> {}, last |-> NoPoolCall,
     call |-> [b \in Browsers |-> [pc |-> "idle", closes |-> None]]]

\* No event was dispatched and the pool was never asked for.
\* ------------------------------------------------ src/utils/formatters.py
\* format_response_with_citations not called
\* text, source_document_name, file_path and citations are the arguments
\* (citations the sources of the first candidate's citation metadata);
\* linked tells, for every character of answer_text, whether a rewrite rule
\* has written it; rule is the rewrite rule that comes next.
NoFmt ==
    [pc |-> "idle", rule |-> 0, text |-> <<>>, source_document_name |-> NoneStr,
     file_path |-> NoneStr, citations |-> <<>>, answer_text |-> <<>>,
     linked |-> <<>>, result |-> <<>>]

\* no browser session shows a chat-management message
NoScreen == [b \in Browsers |-> {}]

InitRunIdle ==
    /\ fmt = NoFmt
    /\ loop = NoLoop
    /\ pool = NoPool
    /\ screen = NoScreen

\* Neither the polling nor the single-user app has run.
InitRagIdle ==
    /\ InitRunIdle
    /\ poll = NoPoll
    /\ single_user = FreshSingle({})

\* No handler has run and nobody is connected.
InitAppIdle ==
    /\ InitRagIdle
    /\ DB_URL = "set"
    /\ user_session = [b \in Browsers |-> FreshSession(NoUser)]
    /\ public = {}
    /\ handled = NoEvent

\* re.match(r"[^@]+@[^@]+\.[^@]+", email): some prefix of email is one or
\* more characters other than '@', an '@', one or more characters other than
\* '@', a '.', and a character other than '@'.
EmailShape(email) ==
    \E i \in 2..Len(email), j \in 3..Len(email) :
        /\ j >= i + 2
        /\ j + 1 <= Len(email)
        /\ \A n \in 1..(i - 1) : email[n] # "@"
        /\ email[i] = "@"
        /\ \A n \in (i + 1)..(j - 1) : email[n] # "@"
        /\ email[j] = "."
        /\ email[j + 1] # "@"

\* ------------------------------------------------ src/auth/handlers.py
\* get_pool raises ValueError when DB_URL is not set.
get_pool_raises == DB_URL = "unset"

\* register_user: get_pool, then User.create on a connection of the pool
register_user(d, username, email, password, salt) ==
    IF get_pool_raises THEN Raised(d)
    ELSE User_create(d, username, email, password, salt)

\* ------------------------------------------------ password specification
Passwords == {<<>>, <<"a">>, <<"b">>, <<"a", "$">>, <<"a", "0">>}

StoredValues ==
    { <<>>, <<"a">>, <<"$">>, <<"$", "$">>, <<"a", "$", "b", "$", "c">>,
      <<"0", "$", "6", "1", "3", "0">>, <<"0", "$", "6", "2">> }

\* The state common to every specification: an initialised, empty database
\* and no call made yet.
InitPwIdle ==
    /\ pw_password = <<>>
    /\ pw_candidate = <<>>
    /\ pw_stored = <<>>
    /\ pw_origin = "given"
    /\ pw_result = FALSE
    /\ pw_pc = "idle"

InitPw ==
    /\ db = EmptyDb
    /\ ret = NoCall
    /\ conn = IdleConns
    /\ InitAppIdle
    /\ pw_password \in Passwords
    /\ pw_candidate \in Passwords
    /\ pw_stored \in StoredValues
    /\ pw_origin = "given"
    /\ pw_result = FALSE
    /\ pw_pc = "start"

\* stored = hash_password(password)
PwHash ==
    /\ pw_pc = "start"
    /\ \E salt \in Salts : pw_stored' = hash_password(pw_password, salt)
    /\ pw_origin' = "hashed"
    /\ pw_pc' = "hashed"
    /\ UNCHANGED <<pw_password, pw_candidate, pw_result, notpw>>

\* result = verify_password(candidate, stored)
PwVerify ==
    /\ pw_pc \in {"start", "hashed"}
    /\ pw_result' = verify_password(pw_candidate, pw_stored)
    /\ pw_pc' = "verified"
    /\ UNCHANGED <<pw_password, pw_candidate, pw_stored, pw_origin, notpw>>

NextPw == PwHash \/ PwVerify

SpecPw == InitPw /\ [][NextPw]_vars

\* C5: verify_password(p, hash_password(p)) is true, verify_password(q,
\* hash_password(p)) is false for every q other than p, and a stored value
\* that does not split into exactly two parts on '$' verifies as false.
PasswordRoundTrip ==
    pw_pc = "verified" =>
        /\ pw_origin = "hashed" => (pw_result <=> (pw_candidate = pw_password))
        /\ (pw_origin = "given" /\ CountOf("$", pw_stored) # 1) => pw_result = FALSE

\* C5 witness: a wrong password was verified against a fresh hash, and was
\* rejected.
PasswordRoundTripWitness ==
    /\ pw_pc = "verified"
    /\ pw_origin = "hashed"
    /\ pw_candidate # pw_password
    /\ pw_result = FALSE

\* ---------------------------------------------------- users specification
\* User.create calls with any arguments, in any order, from any session: each
\* is one INSERT, which the database runs atomically.
Usernames == {<<"a">>, <<"b">>, <<"c">>}
Emails == {<<"a", "@", "x", ".", "c">>, <<"b", "@", "x", ".", "c">>}
GoodPassword == Rep("a", MinPasswordLen)

InitUsers ==
    /\ InitPwIdle
    /\ InitAppIdle
    /\ db = EmptyDb
    /\ ret = NoCall
    /\ conn = IdleConns

UserCreate(username, email, password, salt) ==
    LET r == User_create(db, username, email, password, salt)
    IN  /\ db' = r.db
        /\ ret' = Call("User.create", <<username, email>>, r)
        /\ UNCHANGED <<conn, notdb>>

NextUsers ==
    \E username \in Usernames, email \in Emails, salt \in Salts :
        UserCreate(username, email, GoodPassword, salt)

SpecUsers == InitUsers /\ [][NextUsers]_vars

\* no two user rows share a username, and no two share an email
UsersUnique ==
    \A i, j \in DOMAIN db.users :
        i # j => /\ db.users[i].username # db.users[j].username
                 /\ db.users[i].email # db.users[j].email

\* what a User.create step returns and does, given the table before it
UserCreateStep ==
    (CallEnds /\ ret'.op = "User.create") =>
        IF UniqueViolation(db, ret'.args[1], ret'.args[2])
        THEN ret'.result = None /\ db'.users = db.users
        ELSE /\ ret'.result # None
             /\ ret'.result \notin DOMAIN db.users
             /\ DOMAIN db'.users = DOMAIN db.users \cup {ret'.result}
             /\ db'.users[ret'.result].username = ret'.args[1]
             /\ db'.users[ret'.result].email = ret'.args[2]
             /\ \A i \in DOMAIN db.users : db'.users[i] = db.users[i]

\* C4: after any sequence of User.create calls no two rows share a username
\* or an email; a create with a taken username or email returns None and
\* adds no row, a create with fresh values returns the id of its new row.
UserUniqueness == []UsersUnique /\ [][UserCreateStep]_vars

\* C4 witness: a create was refused while a row holds its username.
UserUniquenessWitness ==
    /\ ret.op = "User.create"
    /\ ret.result = None
    /\ \E i \in DOMAIN db.users : db.users[i].username = ret.args[1]
    /\ Cardinality(DOMAIN db.users) = 2

\* ------------------------------------------------- data-layer specification
\* The data-access calls on chat sessions, messages and documents, made with
\* any arguments by handlers running on two connections. A call of one
\* statement is one step; hard_delete and Message.create are one step for
\* each statement, so the statements of two calls interleave.
NewChat == <<"N", "e", "w", " ", "C", "h", "a", "t">>
Titles == {NewChat, <<"x">>}
Hello == <<"h", "i">>
DocName == <<"d", ".", "p", "d", "f">>
Roles == {"user", "assistant"}

\* two registered users, with ids 1 and 2
TwoUsersDb ==
    User_create(
        User_create(EmptyDb, <<"a">>, <<"a", "@", "x", ".", "c">>,
                    GoodPassword, Rep("0", 2 * SaltBytes)).db,
        <<"b">>, <<"b", "@", "x", ".", "c">>,
        GoodPassword, Rep("f", 2 * SaltBytes)).db

UserIds == DOMAIN TwoUsersDb.users
SessionIds == 1..MaxSessions

InitDb ==
    /\ InitPwIdle
    /\ InitAppIdle
    /\ db = TwoUsersDb
    /\ ret = NoCall
    /\ conn = IdleConns

CsCreate(user_id, title) ==
    /\ db.seq.chat_sessions < MaxSessions
    /\ db.now < MaxClock
    /\ LET r == ChatSession_create(db, user_id, title)
       IN  /\ db' = r.db
           /\ ret' = Call("ChatSession.create", <<user_id>>, r)
    /\ UNCHANGED <<conn, notdb>>

CsGetById(session_id, user_id) ==
    /\ ret' = Call("ChatSession.get_by_id", <<session_id, user_id>>,
                   Returned(db, ChatSession_get_by_id(db, session_id, user_id)))
    /\ UNCHANGED <<db, conn, notdb>>

CsUpdateTitle(session_id, user_id, new_title) ==
    /\ db.now < MaxClock
    /\ LET r == ChatSession_update_title(db, session_id, user_id, new_title)
       IN  /\ db' = r.db
           /\ ret' = Call("ChatSession.update_title", <<session_id, user_id>>, r)
    /\ UNCHANGED <<conn, notdb>>

CsDelete(session_id, user_id) ==
    /\ db.now < MaxClock
    /\ LET r == ChatSession_delete(db, session_id, user_id)
       IN  /\ db' = r.db
           /\ ret' = Call("ChatSession.delete", <<session_id, user_id>>, r)
    /\ UNCHANGED <<conn, notdb>>

\* hard_delete on connection c: the ownership check
HdVerify(c, session_id, user_id) ==
    /\ conn[c].pc = "idle"
    /\ IF hard_delete_verify(db, session_id, user_id)
       THEN /\ conn' = [conn EXCEPT ![c] = [pc |-> "hd_documents",
                            session_id |-> session_id, user_id |-> user_id,
                            result |-> None]]
            /\ UNCHANGED ret
       ELSE /\ ret' = Call("ChatSession.hard_delete", <<session_id, user_id>>,
                           Returned(db, FALSE))
            /\ UNCHANGED conn
    /\ UNCHANGED <<db, notdb>>

HdDocuments(c) ==
    /\ conn[c].pc = "hd_documents"
    /\ db' = hard_delete_documents(db, conn[c].session_id)
    /\ conn' = [conn EXCEPT ![c].pc = "hd_messages"]
    /\ UNCHANGED <<ret, notdb>>

HdMessages(c) ==
    /\ conn[c].pc = "hd_messages"
    /\ db' = hard_delete_messages(db, conn[c].session_id)
    /\ conn' = [conn EXCEPT ![c].pc = "hd_session"]
    /\ UNCHANGED <<ret, notdb>>

HdSession(c) ==
    /\ conn[c].pc = "hd_session"
    /\ LET r == hard_delete_session(db, conn[c].session_id, conn[c].user_id)
       IN  /\ db' = r.db
           /\ ret' = Call("ChatSession.hard_delete",
                          <<conn[c].session_id, conn[c].user_id>>, r)
    /\ conn' = [conn EXCEPT ![c] = Idle]
    /\ UNCHANGED notdb

\* Message.create on connection c: the INSERT
MsgInsert(c, chat_session_id, role, content) ==
    /\ conn[c].pc = "idle"
    /\ db.seq.messages < MaxMessages
    /\ db.now < MaxClock
    /\ LET r == Message_insert(db, chat_session_id, role, content)
       IN  /\ db' = r.db
           /\ IF r.raised
              THEN /\ ret' = Call("Message.create", <<chat_session_id>>, r)
                   /\ UNCHANGED conn
              ELSE /\ conn' = [conn EXCEPT ![c] = [pc |-> "msg_touch",
                                   session_id |-> chat_session_id,
                                   user_id |-> None, result |-> r.result]]
                   /\ UNCHANGED ret
    /\ UNCHANGED notdb

\* Message.create on connection c: the UPDATE of the session's updated_at
MsgTouch(c) ==
    /\ conn[c].pc = "msg_touch"
    /\ db.now < MaxClock
    /\ db' = Message_touch(db, conn[c].session_id)
    /\ ret' = Call("Message.create", <<conn[c].session_id>>,
                   Returned(db, conn[c].result))
    /\ conn' = [conn EXCEPT ![c] = Idle]
    /\ UNCHANGED notdb

DocCreate(chat_session_id, filename) ==
    /\ db.seq.documents < MaxDocuments
    /\ db.now < MaxClock
    /\ LET r == Document_create(db, chat_session_id, filename, filename, filename)
       IN  /\ db' = r.db
           /\ ret' = Call("Document.create", <<chat_session_id>>, r)
    /\ UNCHANGED <<conn, notdb>>

\* ChatSession.hard_delete, its four statements with nothing in between
CsHardDelete(session_id, user_id) ==
    /\ LET r == ChatSession_hard_delete(db, session_id, user_id)
       IN  /\ db' = r.db
           /\ ret' = Call("ChatSession.hard_delete", <<session_id, user_id>>, r)
    /\ UNCHANGED <<conn, notdb>>

\* Message.create, its two statements with nothing in between
MsgCreate(chat_session_id, role, content) ==
    /\ db.seq.messages < MaxMessages
    /\ db.now + 1 < MaxClock
    /\ LET r == Message_create(db, chat_session_id, role, content)
       IN  /\ db' = r.db
           /\ ret' = Call("Message.create", <<chat_session_id>>, r)
    /\ UNCHANGED <<conn, notdb>>

NextDb ==
    \/ \E u \in UserIds, t \in Titles : CsCreate(u, t)
    \/ \E s \in SessionIds, u \in UserIds : CsGetById(s, u)
    \/ \E s \in SessionIds, u \in UserIds, t \in Titles : CsUpdateTitle(s, u, t)
    \/ \E s \in SessionIds, u \in UserIds : CsDelete(s, u)
    \/ \E s \in SessionIds, u \in UserIds : CsHardDelete(s, u)
    \/ \E s \in SessionIds : MsgCreate(s, "user", Hello)
    \/ \E s \in SessionIds : DocCreate(s, DocName)

SpecDb == InitDb /\ [][NextDb]_vars

\* The first user's chats are created, and deleted by either user on one
\* connection with hard_delete taken one statement at a time, while
\* Message.create, one statement at a time on the other connection, and
\* Document.create write to them.
NextDbSteps ==
    \/ CsCreate(1, NewChat)
    \/ \E s \in SessionIds, u \in UserIds : HdVerify("c1", s, u)
    \/ HdDocuments("c1")
    \/ HdMessages("c1")
    \/ HdSession("c1")
    \/ \E s \in SessionIds : MsgInsert("c2", s, "user", Hello)
    \/ MsgTouch("c2")
    \/ \E s \in SessionIds : DocCreate(s, DocName)

SpecDbSteps == InitDb /\ [][NextDbSteps]_vars

\* the session the last call named exists and belongs to another user
ForeignCall(r, d) ==
    /\ r.op \in {"ChatSession.get_by_id", "ChatSession.update_title",
                 "ChatSession.delete"}
    /\ r.args[1] \in DOMAIN d.chat_sessions
    /\ d.chat_sessions[r.args[1]].user_id # r.args[2]

\* a get_by_id, update_title or delete naming another user's session finds
\* nothing and changes nothing
OwnershipStep ==
    (CallEnds /\ ForeignCall(ret', db)) =>
        /\ ret'.op = "ChatSession.get_by_id" => ret'.result = NoRow
        /\ ret'.op # "ChatSession.get_by_id" => ret'.result = FALSE
        /\ ~ret'.raised
        /\ db'.chat_sessions = db.chat_sessions

\* C1: for a session owned by one user and any other user, get_by_id
\* returns nothing, update_title and delete return false, and the row
\* (title, is_deleted, updated_at) is as it was before the call.
OwnershipIsolation == [][OwnershipStep]_vars

\* C1 witness: another user's delete of a live session was refused.
OwnershipIsolationWitness ==
    /\ ForeignCall(ret, db)
    /\ ret.op = "ChatSession.delete"
    /\ ret.result = FALSE
    /\ ~db.chat_sessions[ret.args[1]].is_deleted

\* the last call was the owner's soft delete of an existing session
SoftDeleted(r, d) ==
    /\ r.op = "ChatSession.delete"
    /\ r.args[1] \in DOMAIN d.chat_sessions
    /\ d.chat_sessions[r.args[1]].user_id = r.args[2]

\* the ids a listing holds
ListedIds(rows) == {rows[k].id : k \in 1..Len(rows)}

\* a soft delete hides the session from the owner's listing, and keeps the
\* owner's count and every message and document
SoftDeleteStep ==
    (CallEnds /\ SoftDeleted(ret', db)) =>
        /\ ret'.result = TRUE
        /\ ret'.args[1] \notin ListedIds(ChatSession_list_by_user(db', ret'.args[2]))
        /\ ChatSession_count_by_user(db', ret'.args[2])
               = ChatSession_count_by_user(db, ret'.args[2])
        /\ db'.messages = db.messages
        /\ db'.documents = db.documents

\* once hard_delete has returned true, nothing of the session is left
HardDeleted ==
    (ret.op = "ChatSession.hard_delete" /\ ret.result = TRUE) =>
        /\ ret.args[1] \notin DOMAIN db.chat_sessions
        /\ RowsOf(db.messages, ret.args[1]) = {}
        /\ RowsOf(db.documents, ret.args[1]) = {}

\* C3: after the owner's soft delete the listing no longer holds the
\* session while the count and the session's messages and documents are
\* unchanged; after hard_delete returns true no message, document or
\* chat_sessions row of the session exists.
SoftVersusHardDelete == [][SoftDeleteStep]_vars /\ []HardDeleted

\* C3 witness: a session holding a message was soft-deleted by its owner.
SoftVersusHardDeleteWitness ==
    /\ SoftDeleted(ret, db)
    /\ ret.result = TRUE
    /\ RowsOf(db.messages, ret.args[1]) # {}

\* ------------------------------------- the handlers of app_multiuser.py
\* A handler is a function of the world it runs in: the database, the keys
\* of its browser session, the files under public/, the messages it has sent
\* so far and whether an exception has left it.
World(b) ==
    [db |-> db, us |-> user_session[b], public |-> public, sent |-> <<>>,
     raised |-> FALSE, screen |-> screen[b]]

\* cl.Message(content=...).send()
Send(w, m) == [w EXCEPT !.sent = Append(@, m)]

\* an exception nothing in the handler catches
Raise(w) == [w EXCEPT !.raised = TRUE]

\* The calls to the remote AI service; any of them can fail.
RemoteCalls == {"upload", "wait", "chat", "send"}

\* which kind of remote call fails while a handler runs, if any
Failures == RemoteCalls \cup {"none"}

\* the text of the assistant's reply and of the automatic summary
Reply == <<"o", "k">>
Summary == <<"s", "u", "m">>

\* auth.get_current_user_id
get_current_user_id(w) == w.us.user.user_id

\* rag_manager.create_chat_session(files): the handle it returns
ChatHandle(files) == [files |-> files, live |-> TRUE]

\* create_new_chat_flow
create_new_chat_flow(w, fails) ==
    LET user_id == get_current_user_id(w)
        r == ChatSession_create(w.db, user_id, NewChat)
        w1 == [w EXCEPT !.db = r.db,
                        !.us.chat_session_id = r.result,
                        !.us.chat_title = NewChat]
    IN  IF user_id = None THEN Send(w, "not_authenticated")
        ELSE IF r.raised THEN Raise(w)
        ELSE IF fails = "chat" THEN Raise(w1)
        ELSE Send([w1 EXCEPT !.us.gemini_chat = ChatHandle(<<>>)], "new_chat_created")

\* the messages a list of messages holds
Messages(msgs) == {msgs[k] : k \in 1..Len(msgs)}

\* the ids of a set of messages
Ids(msgs) == {m.id : m \in msgs}

\* cl.Message(...): the id of the k-th message made while the messages
\* of the set shown are on the screen, an id none of them has
MessageId(shown, k) ==
    CHOOSE i \in 1..(Cardinality(shown) + k) :
        /\ i \notin Ids(shown)
        /\ Cardinality((1..i) \ Ids(shown)) = k

\* msg.remove() for every message of the tracked list
remove_management_messages(w) ==
    [w EXCEPT !.screen = @ \ Messages(w.us.management_messages),
              !.us.management_messages = <<>>]

show_chat_management_stacks(w) ==
    LET user_id == get_current_user_id(w)
        sessions == ChatSession_list_by_user(w.db, user_id)
        rows == IF Len(sessions) < PanelRows THEN Len(sessions) ELSE PanelRows
        w1 == [w EXCEPT !.us.management_messages = <<>>]
        management_msgs ==
            [k \in 1..(rows + 1) |->
                [id |-> MessageId(w1.screen, k),
                 session_id |-> IF k = 1 THEN None ELSE sessions[k - 1].id]]
    IN  IF user_id = None THEN Send(w, "not_authenticated")
        ELSE IF sessions = <<>> THEN Send(w1, "no_chats")
        ELSE Send([w1 EXCEPT !.screen = @ \cup Messages(management_msgs),
                             !.us.management_messages = management_msgs],
                  "management")

\* show_chat_management: the tracked messages are removed, then a header
\* and one message with its buttons for each of the user's first ten
\* sessions, most recently updated first, are sent and tracked; a message
\* is its id and the session its buttons carry (None for the header)
show_chat_management(w) ==
    LET user_id == get_current_user_id(w)
        sessions == ChatSession_list_by_user(w.db, user_id)
        rows == IF Len(sessions) < PanelRows THEN Len(sessions) ELSE PanelRows
        w1 == remove_management_messages(w)
        management_msgs ==
            [k \in 1..(rows + 1) |->
                [id |-> MessageId(w1.screen, k),
                 session_id |-> IF k = 1 THEN None ELSE sessions[k - 1].id]]
    IN  IF user_id = None THEN Send(w, "not_authenticated")
        ELSE IF sessions = <<>> THEN Send(w1, "no_chats")
        ELSE Send([w1 EXCEPT !.screen = @ \cup Messages(management_msgs),
                             !.us.management_messages = management_msgs],
                  "management")

load_chat_by_id_sets_first(w, session_id, fails) ==
    LET user_id == get_current_user_id(w)
        session == ChatSession_get_by_id(w.db, session_id, user_id)
        w0 == [w EXCEPT !.us.chat_session_id = session_id]
        w1 == [w0 EXCEPT !.us.chat_title = session.title]
        messages == Message_list_by_session(w.db, session_id)
        documents == Document_list_by_session(w.db, session_id)
        gemini_files == [k \in 1..Len(documents) |-> documents[k].gemini_file]
        w2 == Send([w1 EXCEPT !.us.gemini_chat = ChatHandle(gemini_files)], "loaded")
    IN  IF user_id = None THEN Send(w, "not_authenticated")
        ELSE IF session = NoRow THEN Send(w0, "session_not_found")
        ELSE IF fails = "chat" THEN Raise(w1)
        ELSE IF messages = <<>> THEN w2
        ELSE Send(w2, "history")

\* load_chat_by_id
load_chat_by_id(w, session_id, fails) ==
    LET user_id == get_current_user_id(w)
        session == ChatSession_get_by_id(w.db, session_id, user_id)
        w1 == [w EXCEPT !.us.chat_session_id = session_id,
                        !.us.chat_title = session.title]
        messages == Message_list_by_session(w.db, session_id)
        documents == Document_list_by_session(w.db, session_id)
        gemini_files == [k \in 1..Len(documents) |-> documents[k].gemini_file]
        w2 == Send([w1 EXCEPT !.us.gemini_chat = ChatHandle(gemini_files)], "loaded")
    IN  IF user_id = None THEN Send(w, "not_authenticated")
        ELSE IF session = NoRow THEN Send(w, "session_not_found")
        ELSE IF fails = "chat" THEN Raise(w1)
        ELSE IF messages = <<>> THEN w2
        ELSE Send(w2, "history")

\* on_load_chat
on_load_chat(w, session_id, fails) ==
    LET w1 == load_chat_by_id(remove_management_messages(w), session_id, fails)
    IN  IF session_id = None THEN w
        ELSE IF w1.raised THEN w1
        ELSE IF Truthy(w1.us.chat_title)
        THEN [w1 EXCEPT !.us.chat_profile = w1.us.chat_title]
        ELSE w1

\* on_rename_chat
on_rename_chat(w, session_id, current_title) ==
    IF session_id = None THEN Send(w, "invalid_session")
    ELSE Send([w EXCEPT !.us.pending_rename_session_id = session_id,
                        !.us.pending_rename_old_title = current_title],
              "enter_new_name")

\* the directory public/<user_id>/<session_id>
SessionDir(files, user_id, session_id) ==
    {f \in files : f[1] = user_id /\ f[2] = session_id}

\* on_delete_chat
on_delete_chat(w, session_id) ==
    LET user_id == get_current_user_id(w)
        r == ChatSession_hard_delete(w.db, session_id, user_id)
        w1 == [w EXCEPT !.public = @ \ SessionDir(@, user_id, session_id),
                        !.db = r.db]
    IN  IF session_id = None \/ user_id = None THEN Send(w, "invalid_session")
        ELSE IF r.result THEN show_chat_management(Send(w1, "deleted"))
        ELSE Send(w1, "delete_failed")

process_pending_rename_clears_on_success(w, content, pending_session_id) ==
    LET user_id == get_current_user_id(w)
        new_title == Strip(content)
        r == ChatSession_update_title(w.db, pending_session_id, user_id, new_title)
        w1 == [w EXCEPT !.us.pending_rename_session_id = None,
                        !.us.pending_rename_old_title = NoneStr,
                        !.db = r.db]
    IN  IF user_id = None THEN Send(w, "not_authenticated")
        ELSE IF new_title = <<>> THEN show_chat_management(Send(w, "name_empty"))
        ELSE IF r.result THEN show_chat_management(Send(w1, "renamed"))
        ELSE show_chat_management(Send(w, "rename_failed"))

\* process_pending_rename
process_pending_rename(w, content, pending_session_id) ==
    LET user_id == get_current_user_id(w)
        new_title == Strip(content)
        w1 == [w EXCEPT !.us.pending_rename_session_id = None,
                        !.us.pending_rename_old_title = NoneStr]
        r == ChatSession_update_title(w1.db, pending_session_id, user_id, new_title)
        w2 == [w1 EXCEPT !.db = r.db]
    IN  IF user_id = None THEN Send(w1, "not_authenticated")
        ELSE IF new_title = <<>>
        THEN show_chat_management(Send(w1, "name_empty"))
        ELSE show_chat_management(
                 Send(w2, IF r.result THEN "renamed" ELSE "rename_failed"))

\* An uploaded element: its name and whether it has a local path.
Upload(name, path) == [name |-> name, path |-> path]

\* the text of the automatic summary's instruction
InitialPrompt == <<"A", "n", "a", "l", "y", "z", "e">>

process_uploaded_file_saves_prompt(w, file, fails) ==
    LET chat_session_id == w.us.chat_session_id
        user_id == get_current_user_id(w)
        saved == [Send(w, "processing") EXCEPT
                     !.public = @ \cup {<<user_id, chat_session_id, file.name>>}]
        doc == Document_create(saved.db, chat_session_id, file.name,
                               <<user_id, chat_session_id, file.name>>, file.name)
        titled == ChatSession_update_title(doc.db, chat_session_id, user_id, file.name)
        w1 == [saved EXCEPT !.db = titled.db, !.us.chat_title = file.name]
        w2 == Send([w1 EXCEPT !.us.gemini_chat = ChatHandle(<<file.name>>)], "processed")
        asked == Message_create(w2.db, chat_session_id, "user", InitialPrompt)
        summary == Message_create(asked.db, chat_session_id, "assistant", Summary)
    IN  IF chat_session_id = None \/ user_id = None THEN Send(w, "no_active_chat")
        ELSE IF ~file.path THEN Send(w, "no_path")
        ELSE IF fails = "upload" THEN Send(saved, "error_processing_upload")
        ELSE IF fails = "wait" THEN Send(saved, "error_processing_wait")
        ELSE IF doc.raised THEN Send(saved, "error_processing")
        ELSE IF fails = "chat" THEN Send(w1, "error_processing")
        ELSE IF fails = "send" THEN Send(w2, "error_processing")
        ELSE IF asked.raised \/ summary.raised THEN Send(w2, "error_processing")
        ELSE Send([w2 EXCEPT !.db = summary.db], "summary")

process_uploaded_file_document_first(w, file, fails) ==
    LET chat_session_id == w.us.chat_session_id
        user_id == get_current_user_id(w)
        saved == [Send(w, "processing") EXCEPT
                     !.public = @ \cup {<<user_id, chat_session_id, file.name>>}]
        doc == Document_create(saved.db, chat_session_id, file.name,
                               <<user_id, chat_session_id, file.name>>, file.name)
        w0 == [saved EXCEPT !.db = doc.db]
        titled == ChatSession_update_title(doc.db, chat_session_id, user_id, file.name)
        w1 == [saved EXCEPT !.db = titled.db, !.us.chat_title = file.name]
        w2 == Send([w1 EXCEPT !.us.gemini_chat = ChatHandle(<<file.name>>)], "processed")
        summary == Message_create(w2.db, chat_session_id, "assistant", Summary)
    IN  IF chat_session_id = None \/ user_id = None THEN Send(w, "no_active_chat")
        ELSE IF ~file.path THEN Send(w, "no_path")
        ELSE IF doc.raised THEN Send(saved, "error_processing")
        ELSE IF fails = "upload" THEN Send(w0, "error_processing_upload")
        ELSE IF fails = "wait" THEN Send(w0, "error_processing_wait")
        ELSE IF fails = "chat" THEN Send(w1, "error_processing")
        ELSE IF fails = "send" THEN Send(w2, "error_processing")
        ELSE IF summary.raised THEN Send(w2, "error_processing")
        ELSE Send([w2 EXCEPT !.db = summary.db], "summary")

\* process_uploaded_file. The copy under public/ is written before the try
\* block; whatever raises inside it is reported on the progress message
\* with the text of the exception, and what was done before stays done.
process_uploaded_file(w, file, fails) ==
    LET chat_session_id == w.us.chat_session_id
        user_id == get_current_user_id(w)
        saved == [Send(w, "processing") EXCEPT
                     !.public = @ \cup {<<user_id, chat_session_id, file.name>>}]
        doc == Document_create(saved.db, chat_session_id, file.name,
                               <<user_id, chat_session_id, file.name>>, file.name)
        titled == ChatSession_update_title(doc.db, chat_session_id, user_id, file.name)
        w1 == [saved EXCEPT !.db = titled.db, !.us.chat_title = file.name]
        w2 == Send([w1 EXCEPT !.us.gemini_chat = ChatHandle(<<file.name>>)], "processed")
        summary == Message_create(w2.db, chat_session_id, "assistant", Summary)
    IN  IF chat_session_id = None \/ user_id = None THEN Send(w, "no_active_chat")
        ELSE IF ~file.path THEN Send(w, "no_path")
        ELSE IF fails = "upload" THEN Send(saved, "error_processing_upload")
        ELSE IF fails = "wait" THEN Send(saved, "error_processing_wait")
        ELSE IF doc.raised THEN Send(saved, "error_processing")
        ELSE IF fails = "chat" THEN Send(w1, "error_processing")
        ELSE IF fails = "send" THEN Send(w2, "error_processing")
        ELSE IF summary.raised THEN Send(w2, "error_processing")
        ELSE Send([w2 EXCEPT !.db = summary.db], "summary")

\* main, from "Handle text message if present" on
handle_text(w, content, fails) ==
    LET chat_session_id == w.us.chat_session_id
        w1 == IF w.us.gemini_chat.live THEN w
              ELSE [w EXCEPT !.us.gemini_chat = ChatHandle(<<>>)]
        asked == Message_create(w1.db, chat_session_id, "user", content)
        w2 == [w1 EXCEPT !.db = asked.db]
        answered == Message_create(w2.db, chat_session_id, "assistant", Reply)
    IN  IF content = <<>> THEN w
        ELSE IF ~w.us.gemini_chat.live /\ fails = "chat" THEN Raise(w)
        ELSE IF asked.raised THEN Raise(w1)
        ELSE IF fails = "send" THEN Send(w2, "error_occurred")
        ELSE IF answered.raised THEN Send(w2, "error_occurred")
        ELSE Send([w2 EXCEPT !.db = answered.db], "reply")

\* main, after the registration step was found unset: a pending rename
\* takes the message as the new title; with no active chat session the
\* message is refused; else every attachment that has a path is processed
\* and then the text, if there is one.
main(w, elements, content, fails) ==
    LET pending_session_id == w.us.pending_rename_session_id
        w1 == IF elements # <<>> /\ elements[1].path
              THEN process_uploaded_file(w, elements[1], fails)
              ELSE w
    IN  IF pending_session_id # None
        THEN process_pending_rename(w, content, pending_session_id)
        ELSE IF w.us.chat_session_id = None THEN Send(w, "no_active_chat")
        ELSE handle_text(w1, content, fails)

\* ------------------------------------------- registration specification
\* One browser session whose identity carries the registration-pending
\* marker works through the registration conversation; the page can be
\* reloaded at any time, which starts a new browser session.
A_EMAIL == <<"a", "@", "x", ".", "c">>

\* what the user may type: a blank, an email between blanks, a text one
\* character short of a password, and a password
RegInputs ==
    { <<" ">>, <<" ">> \o A_EMAIL \o <<" ">>, Rep("a", MinPasswordLen - 1),
      Rep("a", MinPasswordLen) }

\* the email the login form held, if any
LoginHints == {NoneStr, A_EMAIL}

PendingUser(hint) ==
    [user_id |-> None, username |-> NoneStr, email_from_login |-> hint,
     registration_pending |-> TRUE]

InitReg ==
    /\ InitPwIdle
    /\ InitRagIdle
    /\ db = EmptyDb
    /\ ret = NoCall
    /\ conn = IdleConns
    /\ DB_URL \in {"set", "unset"}
    /\ \E hint \in LoginHints :
           user_session = [b \in Browsers |->
               IF b = "b1" THEN FreshSession(PendingUser(hint))
               ELSE FreshSession(NoUser)]
    /\ public = {}
    /\ handled = NoEvent

\* The page is reloaded: a new browser session, with no key set.
Reconnect(b, user) ==
    /\ user_session' = [user_session EXCEPT ![b] = FreshSession(user)]
    /\ handled' = Event("connect", b, <<>>, <<>>, FALSE)
    /\ UNCHANGED <<DB_URL, public, db, ret, notapp>>

\* start, for an identity with the registration-pending marker:
\* _handle_registration
StartRegistration(b) ==
    /\ user_session[b].stage = "connected"
    /\ user_session[b].user.registration_pending
    /\ user_session' = [user_session EXCEPT ![b].stage = "ready",
                                            ![b].registration_step = "username"]
    /\ handled' = Event("start", b, <<>>, <<"welcome", "step1">>, FALSE)
    /\ UNCHANGED <<DB_URL, public, db, ret, notapp>>

\* main while a registration step is set: the guard of every step below
InRegistration(b, step) ==
    /\ user_session[b].stage = "ready"
    /\ user_session[b].registration_step = step

\* _handle_registration_step, step "username"
RegUsername(b, raw) ==
    /\ InRegistration(b, "username")
    /\ LET username == Strip(raw)
       IN  IF ~Truthy(username)
           THEN /\ handled' = Event("message", b, raw, <<"username_empty">>, FALSE)
                /\ UNCHANGED user_session
           ELSE /\ user_session' =
                       [user_session EXCEPT ![b].registration_username = username,
                                            ![b].registration_step = "email"]
                /\ handled' = Event("message", b, raw, <<"step2">>, FALSE)
    /\ UNCHANGED <<DB_URL, public, db, ret, notapp>>

\* _handle_registration_step, step "email"
RegEmail(b, raw) ==
    /\ InRegistration(b, "email")
    /\ LET value == Strip(raw)
           hint == user_session[b].user.email_from_login
           email_from_login == IF hint = NoneStr THEN <<>> ELSE hint
           email == IF Truthy(value) THEN value ELSE email_from_login
       IN  IF ~Truthy(email) \/ ~EmailShape(email)
           THEN /\ handled' = Event("message", b, raw, <<"email_invalid">>, FALSE)
                /\ UNCHANGED user_session
           ELSE /\ user_session' =
                       [user_session EXCEPT ![b].registration_email = email,
                                            ![b].registration_step = "password"]
                /\ handled' = Event("message", b, raw, <<"step3">>, FALSE)
    /\ UNCHANGED <<DB_URL, public, db, ret, notapp>>

password_too_short_by_one(password) == Len(password) < MinPasswordLen - 1

\* len(password) < 8
password_too_short(password) == Len(password) < MinPasswordLen

\* _handle_registration_step, step "password"
RegPassword(b, raw) ==
    /\ InRegistration(b, "password")
    /\ LET password == Strip(raw)
       IN  IF ~Truthy(password)
           THEN /\ handled' = Event("message", b, raw, <<"password_empty">>, FALSE)
                /\ UNCHANGED user_session
           ELSE IF password_too_short(password)
           THEN /\ handled' = Event("message", b, raw, <<"password_short">>, FALSE)
                /\ UNCHANGED user_session
           ELSE /\ user_session' =
                       [user_session EXCEPT ![b].registration_password = password,
                                            ![b].registration_step = "password_confirm"]
                /\ handled' = Event("message", b, raw, <<"step4">>, FALSE)
    /\ UNCHANGED <<DB_URL, public, db, ret, notapp>>

\* the registration keys set to None
Cleared(us) ==
    [us EXCEPT !.registration_step = "None",
               !.registration_username = NoneStr,
               !.registration_email = NoneStr,
               !.registration_password = NoneStr]

\* _handle_registration_step, step "password_confirm". An exception of
\* register_user leaves the handler before the keys are cleared; user_id is
\* unbound when register_user was not called, and reading it raises after
\* the keys were cleared.
RegConfirm(b, raw, salt) ==
    /\ InRegistration(b, "password_confirm")
    /\ LET us == user_session[b]
           password_confirm == Strip(raw)
           called == /\ Truthy(us.registration_username)
                     /\ Truthy(us.registration_email)
                     /\ Truthy(us.registration_password)
           r == register_user(db, us.registration_username,
                              us.registration_email, us.registration_password, salt)
       IN  IF ~Truthy(password_confirm)
           THEN /\ handled' = Event("message", b, raw, <<"confirm_empty">>, FALSE)
                /\ UNCHANGED <<user_session, db, ret>>
           ELSE IF us.registration_password # password_confirm
           THEN /\ user_session' = [user_session EXCEPT ![b].registration_step = "password"]
                /\ handled' = Event("message", b, raw, <<"mismatch", "step3">>, FALSE)
                /\ UNCHANGED <<db, ret>>
           ELSE IF ~called
           THEN /\ user_session' = [user_session EXCEPT ![b] = Cleared(us)]
                /\ handled' = Event("message", b, raw, <<>>, TRUE)
                /\ UNCHANGED <<db, ret>>
           ELSE IF r.raised
           THEN /\ handled' = Event("message", b, raw, <<>>, TRUE)
                /\ UNCHANGED <<user_session, db, ret>>
           ELSE /\ db' = r.db
                /\ ret' = Call("User.create",
                               <<us.registration_username, us.registration_email>>, r)
                /\ user_session' = [user_session EXCEPT ![b] = Cleared(us)]
                /\ handled' = Event("message", b, raw,
                                    IF r.result # None THEN <<"registered">>
                                    ELSE <<"registration_failed">>, FALSE)
    /\ UNCHANGED <<DB_URL, public, notapp>>

\* main with no registration step, no pending rename and no active chat
\* session: the user is told to create or load a chat
MainNoSession(b, raw) ==
    /\ user_session[b].stage = "ready"
    /\ user_session[b].registration_step = "None"
    /\ user_session[b].pending_rename_session_id = None
    /\ user_session[b].chat_session_id = None
    /\ handled' = Event("message", b, raw, <<"no_active_chat">>, FALSE)
    /\ UNCHANGED <<user_session, DB_URL, public, db, ret, notapp>>

NextReg ==
    \/ \E hint \in LoginHints : Reconnect("b1", PendingUser(hint))
    \/ StartRegistration("b1")
    \/ \E raw \in RegInputs : RegUsername("b1", raw)
    \/ \E raw \in RegInputs : RegEmail("b1", raw)
    \/ \E raw \in RegInputs : RegPassword("b1", raw)
    \/ \E raw \in RegInputs : RegConfirm("b1", raw, Rep("0", 2 * SaltBytes))
    \/ \E raw \in RegInputs : MainNoSession("b1", raw)

SpecReg == InitReg /\ [][NextReg]_vars

\* what the user typed in the step just taken, as main hands it on
Typed == Strip(handled'.input)

\* this step is main handling a message in browser session b while
\* registration step `step` is set
RegistrationStep(b, step) ==
    /\ HandlerRuns
    /\ handled'.name = "message"
    /\ handled'.browser = b
    /\ user_session[b].stage = "ready"
    /\ user_session[b].registration_step = step

\* the email the email step checks: the typed one, else the login hint
EmailGiven(b) ==
    IF Typed # <<>> THEN Typed
    ELSE IF user_session[b].user.email_from_login = NoneStr THEN <<>>
    ELSE user_session[b].user.email_from_login

\* the input of this step is one the registration conversation rejects
InvalidInput(b) ==
    \/ RegistrationStep(b, "username") /\ Typed = <<>>
    \/ RegistrationStep(b, "email")
           /\ (EmailGiven(b) = <<>> \/ ~EmailShape(EmailGiven(b)))
    \/ RegistrationStep(b, "password") /\ Len(Typed) < 8
    \/ RegistrationStep(b, "password_confirm")
           /\ (Typed = <<>> \/ Typed # user_session[b].registration_password)

\* the step an invalid input leaves the conversation at
StepAfterInvalid(b) ==
    IF /\ user_session[b].registration_step = "password_confirm"
       /\ Typed # <<>>
    THEN "password"
    ELSE user_session[b].registration_step

RegistrationInvalidStep(b) ==
    InvalidInput(b) =>
        /\ user_session'[b].registration_step = StepAfterInvalid(b)
        /\ user_session'[b].registration_username = user_session[b].registration_username
        /\ user_session'[b].registration_email = user_session[b].registration_email
        /\ user_session'[b].registration_password = user_session[b].registration_password
        /\ db'.users = db.users

\* C6: an invalid registration input (an empty username, an email that is
\* empty or fails the shape check, an empty or shorter-than-8 password, an
\* empty confirmation) leaves the step where it was, and a non-empty
\* confirmation different from the stored password moves it to the password
\* step; in none of these cases is a user row created or a stored
\* registration value changed.
RegistrationInvalidInput == [][\A b \in Browsers : RegistrationInvalidStep(b)]_vars

\* A confirmation different from the stored password has been typed: the
\* conversation is back at the password step and the password is still stored.
RegistrationInvalidInputWitness ==
    /\ handled.name = "message"
    /\ handled.sent = <<"mismatch", "step3">>
    /\ Strip(handled.input) = Rep("a", MinPasswordLen - 1)
    /\ user_session["b1"].registration_step = "password"
    /\ user_session["b1"].registration_password = Rep("a", MinPasswordLen)
    /\ db.users = EmptyDb.users

\* this step is main handling, at the confirmation step of browser session
\* b, a confirmation equal to the stored password
ConfirmationMatches(b) ==
    /\ RegistrationStep(b, "password_confirm")
    /\ Typed # <<>>
    /\ Typed = user_session[b].registration_password

\* every registration key of browser session b is unset
RegistrationIdle(us) ==
    /\ us.registration_step = "None"
    /\ us.registration_username = NoneStr
    /\ us.registration_email = NoneStr
    /\ us.registration_password = NoneStr

\* C7: when a confirmation equal to the stored password is submitted at the
\* confirmation step, at most one user row is added and, whatever the outcome
\* of the creation, the registration step and the stored username, email and
\* password are all cleared.
RegistrationCompletion ==
    [][\A b \in Browsers : ConfirmationMatches(b) =>
            /\ RegistrationIdle(user_session'[b])
            /\ Cardinality(DOMAIN db'.users) <= Cardinality(DOMAIN db.users) + 1]_vars

\* ------------------------------------------ multi-user app specification
\* Two registered users, each logged in from one browser session, create
\* chats, press Load, Rename and Delete with any session id in the payload,
\* and send messages with or without an attachment while calls to the
\* remote service may fail.
NewChatProfile == <<"n", "e", "w", "_", "c", "h", "a", "t">>

\* the identity auth_callback gives user id
AuthUser(id) ==
    [user_id |-> id, username |-> TwoUsersDb.users[id].username,
     email_from_login |-> NoneStr, registration_pending |-> FALSE]

\* what a message may hold
Contents == {<<>>, <<" ">>, <<"x">>}
Attachments == {<<>>, <<Upload(DocName, TRUE)>>}

\* The first user has logged in, created a chat and sent it a message with
\* an attachment: the world those two handlers leave.
FirstUsersChat ==
    main(create_new_chat_flow(
             [db |-> TwoUsersDb,
              us |-> [FreshSession(AuthUser(1)) EXCEPT !.chat_profile = NewChatProfile],
              public |-> {}, sent |-> <<>>, raised |-> FALSE, screen |-> {}],
             "none"),
         <<Upload(DocName, TRUE)>>, <<"x">>, "none")

\* The second user logs in once the first user's chat is there.
InitApp ==
    /\ InitPwIdle
    /\ InitRagIdle
    /\ db = FirstUsersChat.db
    /\ ret = NoCall
    /\ conn = IdleConns
    /\ DB_URL = "set"
    /\ user_session = [b \in Browsers |->
           IF b = "b1" THEN [FirstUsersChat.us EXCEPT !.stage = "ready"]
           ELSE [FreshSession(AuthUser(2)) EXCEPT !.chat_profile = NewChatProfile]]
    /\ public = FirstUsersChat.public
    /\ handled = NoEvent

\* the handler that ran in browser session b leaves the world w
Leaves(b, w) ==
    /\ db' = w.db
    /\ user_session' = [user_session EXCEPT ![b] = [w.us EXCEPT !.stage = "ready"]]
    /\ public' = w.public
    /\ UNCHANGED <<DB_URL, ret, notapp>>

\* start with the "new_chat" profile selected: create_new_chat_flow
StartNewChat(b, fails) ==
    /\ user_session[b].stage = "connected"
    /\ ~user_session[b].user.registration_pending
    /\ user_session[b].chat_profile = NewChatProfile
    /\ db.seq.chat_sessions < MaxSessions
    /\ LET w == create_new_chat_flow(World(b), fails)
       IN  /\ Leaves(b, w)
           /\ handled' = Event("start", b, <<>>, w.sent, w.raised)

\* the Load button, or a forged load_chat action
LoadChat(b, session_id, fails) ==
    /\ user_session[b].stage = "ready"
    /\ LET w == on_load_chat(World(b), session_id, fails)
       IN  /\ Leaves(b, w)
           /\ handled' = Callback("load_chat", b, session_id, w.sent, w.raised)

\* the Rename button, or a forged rename_chat action
RenameChat(b, session_id, current_title) ==
    /\ user_session[b].stage = "ready"
    /\ LET w == on_rename_chat(World(b), session_id, current_title)
       IN  /\ Leaves(b, w)
           /\ handled' = Callback("rename_chat", b, session_id, w.sent, w.raised)

\* the Delete button, or a forged delete_chat action
DeleteChat(b, session_id) ==
    /\ user_session[b].stage = "ready"
    /\ LET w == on_delete_chat(World(b), session_id)
       IN  /\ Leaves(b, w)
           /\ handled' = Callback("delete_chat", b, session_id, w.sent, w.raised)

\* a message, with or without an attachment, outside registration
ChatMessage(b, elements, content, fails) ==
    /\ user_session[b].stage = "ready"
    /\ user_session[b].registration_step = "None"
    /\ db.now < FirstUsersChat.db.now + MaxClock
    /\ elements # <<>> =>
           db.seq.documents < FirstUsersChat.db.seq.documents + MaxDocuments
    /\ user_session[b].pending_rename_session_id = None =>
           db.seq.messages < FirstUsersChat.db.seq.messages + MaxMessages
    /\ LET w == main(World(b), elements, content, fails)
       IN  /\ Leaves(b, w)
           /\ handled' = Event("message", b, content, w.sent, w.raised)

\* The first user's chat stays as it is while the second user acts.
NextApp ==
    \/ \E fails \in {"none", "chat"} : StartNewChat("b2", fails)
    \/ \E id \in SessionIds, fails \in {"none", "chat"} : LoadChat("b2", id, fails)
    \/ \E id \in SessionIds : RenameChat("b2", id, NewChat)
    \/ \E id \in SessionIds : DeleteChat("b2", id)
    \/ \E elements \in Attachments, content \in Contents, fails \in Failures :
           ChatMessage("b2", elements, content, fails)

SpecApp == InitApp /\ [][NextApp]_vars

\* the chat sessions user_id owns in database d
SessionsOf(d, user_id) ==
    {i \in DOMAIN d.chat_sessions : d.chat_sessions[i].user_id = user_id}

\* all that belongs to user_id: the rows of its chat sessions, their
\* messages and documents, and its files under public/
Belongings(d, files, user_id) ==
    [ chat_sessions |-> [i \in SessionsOf(d, user_id) |-> d.chat_sessions[i]],
      messages |-> [i \in {m \in DOMAIN d.messages :
                              d.messages[m].chat_session_id \in SessionsOf(d, user_id)}
                       |-> d.messages[i]],
      documents |-> [i \in {m \in DOMAIN d.documents :
                               d.documents[m].chat_session_id \in SessionsOf(d, user_id)}
                        |-> d.documents[i]],
      files |-> {f \in files : f[1] = user_id} ]

\* a handler run in browser session b: a chat it creates gets an id no
\* session had and is owned by b's user; whatever id its payload carried
\* and whatever title was typed, the belongings of every other user are as
\* they were and none of their sessions is the active one of b
IsolationStep(b) ==
    LET me == user_session[b].user.user_id
        active == user_session'[b].chat_session_id
    IN  HandlerRuns /\ handled'.browser = b =>
            /\ \A u \in DOMAIN db.users \ {me} :
                   /\ Belongings(db', public', u) = Belongings(db, public, u)
                   /\ active \notin SessionsOf(db', u)
            /\ handled'.name = "start" /\ active # None =>
                   /\ active \notin DOMAIN db.chat_sessions
                   /\ active \in SessionsOf(db', me)

\* C2: two users who each create a "New Chat" get distinct session ids, each
\* owned by its creator, and no Load, Rename followed by a typed title, or
\* Delete by one user that carries the other's session id loads, renames or
\* deletes that session, its messages, its documents or its files on disk.
EndToEndIsolation ==
    /\ [][\A b \in Browsers : IsolationStep(b)]_vars
    /\ [](\A b \in Browsers :
              user_session[b].chat_session_id \in DOMAIN db.chat_sessions =>
                  user_session[b].chat_session_id
                      \in SessionsOf(db, user_session[b].user.user_id))

\* The second user, with a chat of its own, has pressed Delete with the
\* first user's session id: the delete failed and the first user's session,
\* messages, document and file are there.
EndToEndIsolationWitness ==
    /\ handled.name = "delete_chat"
    /\ handled.browser = "b2"
    /\ handled.session_id = user_session["b1"].chat_session_id
    /\ handled.sent = <<"delete_failed">>
    /\ user_session["b2"].chat_session_id \in SessionsOf(db, 2)
    /\ user_session["b2"].gemini_chat.live
    /\ user_session["b2"].chat_session_id # user_session["b1"].chat_session_id
    /\ Belongings(db, public, 1) = Belongings(FirstUsersChat.db, FirstUsersChat.public, 1)
    /\ Belongings(db, public, 1).files # {}
    /\ DOMAIN Belongings(db, public, 1).messages # {}
    /\ DOMAIN Belongings(db, public, 1).documents # {}

\* this step is main handling text for the active chat session of browser
\* session b, and no exception leaves the handler
TextTurn(b) ==
    /\ HandlerRuns
    /\ handled'.name = "message"
    /\ handled'.browser = b
    /\ ~handled'.raised
    /\ handled'.input # <<>>
    /\ user_session[b].registration_step = "None"
    /\ user_session[b].pending_rename_session_id = None
    /\ user_session[b].chat_session_id \in DOMAIN db.chat_sessions

\* the message rows of chat session session_id that d holds and before does not
NewRows(before, d, session_id) ==
    {i \in DOMAIN d.messages \ DOMAIN before.messages :
        d.messages[i].chat_session_id = session_id}

\* C8: every text message sent to an active chat session ends with an
\* assistant row persisted for the turn, after the row of the user's text:
\* the reply, or the error text when sending or a later step fails.
AssistantTurnPersisted ==
    [][\A b \in Browsers : TextTurn(b) =>
           LET rows == NewRows(db, db', user_session[b].chat_session_id)
           IN  \E u, a \in rows :
                   /\ db'.messages[u].role = "user"
                   /\ db'.messages[a].role = "assistant"
                   /\ a > u]_vars

\* ---------------------------------------------- polling specification
\* wait_for_files_active runs over a list of files; the remote service
\* reports each file PROCESSING some number of times and then in its final
\* state.
FinalStates == {"ACTIVE", "FAILED"}

\* a file the service reports PROCESSING k times and then in state final
PolledFile(name, k, final) ==
    [name |-> name, reads |-> Rep("PROCESSING", k) \o <<final>>]

\* what a file of the list may be: named or not, and its status reads
FileChoices ==
    [named : {TRUE}, k : 0..MaxProcessing, final : FinalStates]
        \cup {[named |-> FALSE, k |-> 0, final |-> "ACTIVE"]}

\* the lists of files of up to MaxFiles files; the j-th file, if it has a
\* name, is named with j letters
PolledLists ==
    UNION {
        {[j \in 1..n |-> PolledFile(IF c[j].named THEN Rep("f", j) ELSE NoneStr,
                                    c[j].k, c[j].final)] :
            c \in [1..n -> FileChoices]} :
        n \in 0..MaxFiles}

NoError == [what |-> "none", name |-> NoneStr]

InitPoll ==
    /\ InitPwIdle
    /\ db = EmptyDb
    /\ ret = NoCall
    /\ conn = IdleConns
    /\ DB_URL = "set"
    /\ user_session = [b \in Browsers |-> FreshSession(NoUser)]
    /\ public = {}
    /\ handled = NoEvent
    /\ single_user = FreshSingle({})
    /\ InitRunIdle
    /\ \E files \in PolledLists :
           poll = [files |-> files, i |-> 1, pc |-> "for", state |-> "none",
                   fetches |-> [j \in 1..Len(files) |-> 0],
                   sleeps |-> [j \in 1..Len(files) |-> 0],
                   slept |-> 0, error |-> NoError]

\* for file in files: the next file, if any; one without a name raises
PollFor ==
    /\ poll.pc = "for"
    /\ poll' =
           IF poll.i > Len(poll.files) THEN [poll EXCEPT !.pc = "returned"]
           ELSE IF ~Truthy(poll.files[poll.i].name)
           THEN [poll EXCEPT !.pc = "raised",
                             !.error = [what |-> "no_name", name |-> NoneStr]]
           ELSE [poll EXCEPT !.pc = "get"]
    /\ UNCHANGED <<pwvars, dbvars, appvars, single_user, runvars>>

\* a file the service reports PROCESSING for ever
StuckFile(name) == [name |-> name, reads |-> <<>>]

\* the n-th status the service reports for file: PROCESSING once its reads
\* are used up, which only happens for a file that stays PROCESSING
StatusRead_gives_up(file, n) ==
    IF n <= Len(file.reads) THEN file.reads[n] ELSE "FAILED"

StatusRead(file, n) ==
    IF n <= Len(file.reads) THEN file.reads[n] ELSE "PROCESSING"

\* Fetches and sleeps are counted up to PollCap, more than any file that
\* leaves PROCESSING needs; the loop itself goes on.
PollCap == MaxProcessing + 2

\* file_obj = client.files.get(name=...): the next status the service reports
PollGet ==
    /\ poll.pc = "get"
    /\ LET n == poll.fetches[poll.i] + 1
       IN  poll' = [poll EXCEPT !.fetches[poll.i] = IF n > PollCap THEN PollCap ELSE n,
                                !.state = StatusRead(poll.files[poll.i], n),
                                !.pc = "while"]
    /\ UNCHANGED <<pwvars, dbvars, appvars, single_user, runvars>>

never_failed(state) == FALSE

\* file_obj.state != "ACTIVE"
failed_to_process(state) == state # "ACTIVE"

\* while file_obj.state == "PROCESSING", and the check after the loop
PollWhile ==
    /\ poll.pc = "while"
    /\ poll' =
           IF poll.state = "PROCESSING" THEN [poll EXCEPT !.pc = "sleep"]
           ELSE IF failed_to_process(poll.state)
           THEN [poll EXCEPT !.pc = "raised",
                             !.error = [what |-> "failed",
                                        name |-> poll.files[poll.i].name]]
           ELSE [poll EXCEPT !.i = @ + 1, !.pc = "for"]
    /\ UNCHANGED <<pwvars, dbvars, appvars, single_user, runvars>>

\* time.sleep(2)
PollSleep ==
    /\ poll.pc = "sleep"
    /\ poll' = IF poll.sleeps[poll.i] < PollCap
               THEN [poll EXCEPT !.sleeps[poll.i] = @ + 1,
                                 !.slept = @ + PollSleepSeconds,
                                 !.pc = "get"]
               ELSE [poll EXCEPT !.pc = "get"]
    /\ UNCHANGED <<pwvars, dbvars, appvars, single_user, runvars>>

NextPoll == PollFor \/ PollGet \/ PollWhile \/ PollSleep

SpecPoll == InitPoll /\ [][NextPoll]_vars

\* the call runs on: nothing but its own sleeps holds it
SpecPollLive == SpecPoll /\ WF_vars(NextPoll)

\* the number of PROCESSING reads of file j and its final state
ProcessingReads(j) == Len(poll.files[j].reads) - 1
FinalState(j) == poll.files[j].reads[Len(poll.files[j].reads)]

\* file j stops the call: it has no name or ends in a state other than ACTIVE
Stops(j) == ~Truthy(poll.files[j].name) \/ FinalState(j) # "ACTIVE"

\* file j was polled to its final state: one sleep for each PROCESSING read
\* and one fetch more
PolledThrough(j) ==
    /\ poll.sleeps[j] = ProcessingReads(j)
    /\ poll.fetches[j] = ProcessingReads(j) + 1

RECURSIVE SleepsUpTo(_)
SleepsUpTo(j) == IF j = 0 THEN 0 ELSE poll.sleeps[j] + SleepsUpTo(j - 1)

PollOutcome ==
    /\ poll.slept = 2 * SleepsUpTo(Len(poll.files))
    /\ poll.pc = "returned" =>
           \A j \in 1..Len(poll.files) : ~Stops(j) /\ PolledThrough(j)
    /\ poll.pc = "raised" =>
           /\ poll.i \in 1..Len(poll.files)
           /\ Stops(poll.i)
           /\ \A j \in 1..(poll.i - 1) : ~Stops(j) /\ PolledThrough(j)
           /\ \A j \in (poll.i + 1)..Len(poll.files) : poll.fetches[j] = 0
           /\ IF Truthy(poll.files[poll.i].name)
              THEN /\ PolledThrough(poll.i)
                   /\ poll.error = [what |-> "failed", name |-> poll.files[poll.i].name]
              ELSE /\ poll.fetches[poll.i] = 0
                   /\ poll.error.what = "no_name"

\* C10: a file read PROCESSING k times and then ACTIVE is passed after
\* exactly k sleeps of 2 seconds and k+1 status fetches, and the call returns
\* when every file is; a named file whose first other status is not ACTIVE
\* makes the call raise an error naming it, with no fetch for any later file;
\* a file without a name makes it raise before any fetch for that file.
FileActivationPolling ==
    /\ []PollOutcome
    /\ <>(poll.pc \in {"returned", "raised"})

\* The call has returned for one file read PROCESSING, PROCESSING, ACTIVE:
\* two sleeps, four seconds, three fetches.
FileActivationPollingWitness ==
    /\ poll.pc = "returned"
    /\ Len(poll.files) = 1
    /\ poll.files[1].reads = <<"PROCESSING", "PROCESSING", "ACTIVE">>
    /\ poll.sleeps[1] = 2
    /\ poll.fetches[1] = 3
    /\ poll.slept = 4

\* ----------------------------------------- single-user app specification
\* One browser session of src/app.py: it is asked for a file when it
\* connects, then sends messages with or without an attachment, and may be
\* reloaded; any call to the remote service may fail.
OtherName == <<"n", ".", "t", "x", "t">>

\* what AskFileMessage may come back with: nothing, or one file
Asked == {<<>>} \cup {<<Upload(n, p)>> : n \in {DocName, OtherName}, p \in BOOLEAN}

\* what a message may carry
Elements == {<<>>} \cup {<<Upload(n, TRUE)>> : n \in {DocName, OtherName}}

InitSingle ==
    /\ InitPwIdle
    /\ db = EmptyDb
    /\ ret = NoCall
    /\ conn = IdleConns
    /\ DB_URL = "set"
    /\ user_session = [b \in Browsers |-> FreshSession(NoUser)]
    /\ public = {}
    /\ handled = NoEvent
    /\ poll = NoPoll
    /\ single_user = FreshSingle({})
    /\ InitRunIdle

\* the page is loaded again: a new browser session over the same directory
SingleConnect ==
    /\ single_user.stage = "ready"
    /\ single_user' = FreshSingle(single_user.public)
    /\ handled' = Event("connect", "single", <<>>, <<>>, FALSE)
    /\ UNCHANGED <<pwvars, dbvars, DB_URL, user_session, public, poll, runvars>>

\* start of src/app.py. The handle is stored as soon as it is created, and
\* the summary is asked for after that.
SingleStart(files_uploaded, fails) ==
    /\ single_user.stage = "connected"
    /\ LET ready == [single_user EXCEPT !.stage = "ready"]
           text_file == files_uploaded[1]
           saved == [ready EXCEPT !.public = @ \cup {text_file.name},
                                  !.current_file_name = text_file.name]
           active == [saved EXCEPT !.chat_session = ChatHandle(<<text_file.name>>)]
           done(su, sent) ==
               /\ single_user' = su
               /\ handled' = Event("start", "single", <<>>, sent, FALSE)
       IN  IF files_uploaded = <<>> THEN done(ready, <<>>)
           ELSE IF ~text_file.path THEN done(ready, <<"no_path">>)
           ELSE IF fails \in {"upload", "wait", "chat"}
           THEN done(saved, <<"processing", "error_processing">>)
           ELSE IF fails = "send"
           THEN done(active, <<"processing", "generating", "error_processing">>)
           ELSE done(active, <<"processing", "generating", "summary">>)
    /\ UNCHANGED <<pwvars, dbvars, DB_URL, user_session, public, poll, runvars>>

\* main of src/app.py
SingleMessage(content, elements, fails) ==
    /\ single_user.stage = "ready"
    /\ LET attached == elements # <<>>
           uploaded == attached /\ fails \notin {"upload", "wait"}
           saved == IF attached
                    THEN [single_user EXCEPT
                             !.public = @ \cup {elements[1].name},
                             !.current_file_name = elements[1].name]
                    ELSE single_user
           processed == IF ~attached THEN <<>>
                        ELSE IF uploaded THEN <<"processing", "done">>
                        ELSE <<"processing", "error_processing">>
           gemini_content == content # <<>> \/ uploaded
           answered == IF ~gemini_content THEN <<"please_send">>
                       ELSE IF fails = "send" THEN <<"error_occurred">>
                       ELSE <<"reply">>
       IN  IF ~single_user.chat_session.live
           THEN /\ handled' = Event("message", "single", content,
                                    <<"no_active_session">>, FALSE)
                /\ UNCHANGED single_user
           ELSE /\ single_user' = saved
                /\ handled' = Event("message", "single", content,
                                    processed \o answered, FALSE)
    /\ UNCHANGED <<pwvars, dbvars, DB_URL, user_session, public, poll, runvars>>

NextSingle ==
    \/ SingleConnect
    \/ \E files_uploaded \in Asked, fails \in Failures :
           SingleStart(files_uploaded, fails)
    \/ \E content \in Contents, elements \in Elements, fails \in Failures :
           SingleMessage(content, elements, fails)

SpecSingle == InitSingle /\ [][NextSingle]_vars

\* the browser session has no active remote chat handle
NoSession(su) == ~su.chat_session.live

\* this step is start showing a processing error
StartFails ==
    /\ HandlerRuns
    /\ handled'.name = "start"
    /\ handled'.browser = "single"
    /\ \E k \in DOMAIN handled'.sent : handled'.sent[k] = "error_processing"

\* C9: when any step of the upload sequence of the single-user start fails
\* (upload, activation wait, handle creation or the automatic summary), the
\* failure is shown and the browser session stays without an active handle,
\* so that every later message is answered with "no active session".
StartFailureLeavesNoSession ==
    /\ [][StartFails => NoSession(single_user')]_vars
    /\ [][/\ HandlerRuns
          /\ handled'.name = "message"
          /\ handled'.browser = "single"
          /\ NoSession(single_user)
          => /\ handled'.sent = <<"no_active_session">>
             /\ NoSession(single_user')]_vars

\* ------------------------------------------------ event loop specification
\* Two browser sessions, each with an active chat session of its own user,
\* send messages to main of app_multiuser.py. The handlers are coroutines of
\* one event loop: a handler gives the thread up where it awaits (every
\* database call, every cl.Message send or update) and keeps it through every
\* call it does not await: rag_manager.upload_file, wait_for_files_active
\* with its time.sleep, and gemini_chat.send_message. The framework hands a
\* browser session its next event when its handler has finished.
ChatOf == [b \in Browsers |-> IF b = "b1" THEN 1 ELSE 2]

\* each user has created one chat
LoopDb ==
    ChatSession_create(ChatSession_create(TwoUsersDb, 1, NewChat).db, 2, NewChat).db

\* the files a message may carry: one that becomes ACTIVE after a
\* PROCESSING read, one that fails, one that stays PROCESSING
LoopFiles ==
    { PolledFile(DocName, 1, "ACTIVE"), PolledFile(DocName, 0, "FAILED"),
      StuckFile(DocName) }

\* what a browser session may send: a text, or a file with no text
LoopEvents ==
    {[kind |-> "text", file |-> <<>>]}
        \cup {[kind |-> "upload", file |-> <<f>>] : f \in LoopFiles}

\* the most events a browser session sends
MostEvents == [b \in Browsers |-> IF b = "b1" THEN MaxMessages + 1 ELSE 1]

InitLoop ==
    /\ InitPwIdle
    /\ db = LoopDb
    /\ ret = NoCall
    /\ conn = IdleConns
    /\ DB_URL = "set"
    /\ user_session = [b \in Browsers |-> FreshSession(NoUser)]
    /\ public = {}
    /\ handled = NoEvent
    /\ poll = NoPoll
    /\ single_user = FreshSingle({})
    /\ loop = NoLoop
    /\ pool = NoPool
    /\ fmt = NoFmt
    /\ screen = NoScreen

\* what every step of the event loop leaves alone
LoopFrame == UNCHANGED <<pwvars, ret, conn, appvars, single_user, pool, fmt, screen>>

\* the user of browser session b sends a message
UserSends(b, event) ==
    /\ Len(loop.sent[b]) < MostEvents[b]
    /\ loop' = [loop EXCEPT !.sent[b] = Append(@, event)]
    /\ UNCHANGED <<db, poll>>
    /\ LoopFrame

\* the handler of browser session b returns or is left by an exception
Finished(b) ==
    [loop EXCEPT !.thread = "free", !.task[b] = NoTask, !.done[b] = @ + 1]

\* the handler of b gives the thread up at an await, to go on at pc
Parked(b, pc) == [loop EXCEPT !.thread = "free", !.task[b].pc = pc]

\* the handler of b enters a call it does not await
Blocked(b, pc) == [loop EXCEPT !.thread = b, !.task[b].pc = pc]

\* browser session b has no handler running
session_idle(b) == loop.task[b].pc = "idle"

\* @cl.on_message: the framework starts main for the next event of b; main
\* runs to its first await (Message.create, or the progress message)
Dispatch(b) ==
    /\ loop.thread = "free"
    /\ session_idle(b)
    /\ loop.taken[b] < Len(loop.sent[b])
    /\ LET k == loop.taken[b] + 1
           event == loop.sent[b][k]
       IN  loop' = [loop EXCEPT !.taken[b] = k,
                                !.task[b] = [pc |-> IF event.kind = "text"
                                                    THEN "user_row" ELSE "progress",
                                             k |-> k, kind |-> event.kind,
                                             file |-> event.file]]
    /\ UNCHANGED <<db, poll>>
    /\ LoopFrame

\* the handler of b is parked at pc and the thread is free for it to go on
Resumes(b, pc) == loop.thread = "free" /\ loop.task[b].pc = pc

\* the call the handler of b is blocked in at pc comes back
ComesBack(b, pc) == loop.thread = b /\ loop.task[b].pc = pc

UserRow_unsaved(b) ==
    /\ Resumes(b, "user_row")
    /\ loop' = Blocked(b, "sending")
    /\ UNCHANGED <<db, poll>>
    /\ LoopFrame

\* main: Message.create for the user's text comes back, and the handler
\* goes into gemini_chat.send_message
UserRow(b) ==
    /\ Resumes(b, "user_row")
    /\ LET r == Message_create(db, ChatOf[b], "user", Rep("m", loop.task[b].k))
       IN  /\ db' = r.db
           /\ loop' = IF r.raised THEN Finished(b) ELSE Blocked(b, "sending")
    /\ UNCHANGED poll
    /\ LoopFrame

\* gemini_chat.send_message returns, and the handler awaits Message.create
\* for the reply, or raises, and the handler shows the error
SendEnds(b, ok) ==
    /\ ComesBack(b, "sending")
    /\ loop' = IF ok THEN Parked(b, "assistant_row") ELSE Finished(b)
    /\ UNCHANGED <<db, poll>>
    /\ LoopFrame

\* Message.create for the reply comes back and the reply is shown
AssistantRow(b) ==
    /\ Resumes(b, "assistant_row")
    /\ db' = Message_create(db, ChatOf[b], "assistant", Rep("r", loop.task[b].k)).db
    /\ loop' = Finished(b)
    /\ UNCHANGED poll
    /\ LoopFrame

\* process_uploaded_file: the progress message is out, the copy is written
\* and the handler goes into rag_manager.upload_file
Progress(b) ==
    /\ Resumes(b, "progress")
    /\ loop' = Blocked(b, "uploading")
    /\ UNCHANGED <<db, poll>>
    /\ LoopFrame

\* upload_file returns and the handler goes on into wait_for_files_active,
\* or raises
UploadEnds(b, ok) ==
    /\ ComesBack(b, "uploading")
    /\ IF ok
       THEN /\ loop' = Blocked(b, "waiting")
            /\ poll' = [files |-> loop.task[b].file, i |-> 1, pc |-> "for",
                        state |-> "none", fetches |-> <<0>>, sleeps |-> <<0>>,
                        slept |-> 0, error |-> NoError]
       ELSE /\ loop' = Finished(b)
            /\ UNCHANGED poll
    /\ UNCHANGED db
    /\ LoopFrame

\* wait_for_files_active returns, and the handler awaits Document.create,
\* or raises
WaitEnds(b) ==
    /\ ComesBack(b, "waiting")
    /\ poll.pc \in {"returned", "raised"}
    /\ loop' = IF poll.pc = "returned" THEN Parked(b, "doc_row") ELSE Finished(b)
    /\ poll' = NoPoll
    /\ UNCHANGED db
    /\ LoopFrame

\* Document.create and ChatSession.update_title come back; the handler
\* awaits the update of the progress message
DocRow(b) ==
    /\ Resumes(b, "doc_row")
    /\ LET doc == Document_create(db, ChatOf[b], DocName, DocName, DocName)
       IN  IF doc.raised
           THEN loop' = Finished(b) /\ db' = doc.db
           ELSE /\ db' = ChatSession_update_title(doc.db, ChatOf[b],
                                                  ChatOf[b], DocName).db
                /\ loop' = Parked(b, "summary")
    /\ UNCHANGED poll
    /\ LoopFrame

\* the handler goes into send_message for the summary
SummaryBegins(b) ==
    /\ Resumes(b, "summary")
    /\ loop' = Blocked(b, "summarising")
    /\ UNCHANGED <<db, poll>>
    /\ LoopFrame

\* send_message for the summary returns or raises
SummaryEnds(b, ok) ==
    /\ ComesBack(b, "summarising")
    /\ loop' = IF ok THEN Parked(b, "summary_row") ELSE Finished(b)
    /\ UNCHANGED <<db, poll>>
    /\ LoopFrame

\* Message.create for the summary comes back and the summary is shown
SummaryRow(b) ==
    /\ Resumes(b, "summary_row")
    /\ db' = Message_create(db, ChatOf[b], "assistant", Summary).db
    /\ loop' = Finished(b)
    /\ UNCHANGED poll
    /\ LoopFrame

NextLoop ==
    \/ \E event \in LoopEvents : UserSends("b1", event)
    \/ UserSends("b2", [kind |-> "text", file |-> <<>>])
    \/ \E b \in Browsers :
           \/ Dispatch(b)
           \/ UserRow(b)
           \/ \E ok \in BOOLEAN : SendEnds(b, ok)
           \/ AssistantRow(b)
           \/ Progress(b)
           \/ \E ok \in BOOLEAN : UploadEnds(b, ok)
           \/ WaitEnds(b)
           \/ DocRow(b)
           \/ SummaryBegins(b)
           \/ \E ok \in BOOLEAN : SummaryEnds(b, ok)
           \/ SummaryRow(b)
    \/ PollFor
    \/ PollGet
    \/ PollWhile
    \/ PollSleep

SpecLoop == InitLoop /\ [][NextLoop]_vars

\* the running handler goes on: the code between two awaits runs to the next
\* await, and an awaited call comes back
Runs ==
    \/ PollFor
    \/ PollGet
    \/ PollWhile
    \/ PollSleep
    \/ \E b \in Browsers : Dispatch(b) \/ UserRow(b) \/ AssistantRow(b)
                              \/ Progress(b) \/ WaitEnds(b) \/ DocRow(b)
                              \/ SummaryBegins(b) \/ SummaryRow(b)

SpecLoopLive == SpecLoop /\ WF_vars(Runs)

\* the handler of b is in wait_for_files_active
Waiting(b) == loop.task[b].pc = "waiting"

\* the file reports a state other than PROCESSING at some status check
EverFinal(file) == \E n \in 1..Len(file.reads) : file.reads[n] # "PROCESSING"

\* the files wait_for_files_active has got to
Polled == { poll.files[i] : i \in 1..(IF poll.i <= Len(poll.files) THEN poll.i
                                      ELSE Len(poll.files)) }

\* wait_for_files_active is polling a file that stays PROCESSING
PollsStuck(b) == Waiting(b) /\ \E file \in Polled : ~EverFinal(file)

\* the handler of b stays in the poll, does not complete, and b's next event
\* is not taken
StaysStuck(b) ==
    PollsStuck(b) =>
        /\ PollsStuck(b)'
        /\ poll'.pc \notin {"returned", "raised"}
        /\ loop'.done[b] = loop.done[b]
        /\ loop'.taken[b] = loop.taken[b]

\* C11: wait_for_files_active has no bound on polling. It has returned or
\* raised only if every file it polled reported a state other than
\* PROCESSING; when every file of the call reports one, the call returns or
\* raises; while it polls a file that stays PROCESSING it never returns and
\* never raises, the session's handler does not complete and no later event
\* of the session is handled.
PollNonTermination ==
    /\ [](poll.pc \in {"returned", "raised"} =>
              \A file \in Polled : EverFinal(file))
    /\ \A b \in Browsers :
           (Waiting(b) /\ \A file \in Polled : EverFinal(file))
               ~> (poll.pc \in {"returned", "raised"})
    /\ [][\A b \in Browsers : StaysStuck(b)]_vars

\* the poll of a stuck file has gone past every bound the model counts to,
\* with the session's next event waiting
PollNonTerminationWitness ==
    /\ PollsStuck("b1")
    /\ poll.fetches[1] = PollCap
    /\ poll.sleeps[1] = PollCap
    /\ loop.taken["b1"] < Len(loop.sent["b1"])

\* the handler of b is in a call it does not await: the remote upload, the
\* activation poll with its sleeps, or a remote send_message
InBlockingCall(b) ==
    loop.task[b].pc \in {"uploading", "waiting", "sending", "summarising"}

\* browser session b has an event that no handler has taken
HasPending(b) == loop.taken[b] < Len(loop.sent[b])

\* C12: while the handler of one browser session is blocked in a remote
\* upload, in the activation poll or in a remote send_message, a pending
\* event of another browser session whose own handler is not running can be
\* dispatched.
OtherSessionsProgress ==
    \A b \in Browsers : \A o \in Browsers \ {b} :
        (InBlockingCall(b) /\ session_idle(o) /\ HasPending(o))
            => ENABLED Dispatch(o)

\* every event browser session b has sent is a text message
OnlyTexts(b) == \A k \in 1..Len(loop.sent[b]) : loop.sent[b][k].kind = "text"

\* the number of the message a row belongs to: the text of message k and
\* the reply to it are k characters long
TurnOf(row) == Len(row.content)

\* row x of message i comes before row y of message j in send order
InSendOrder(x, y) ==
    \/ TurnOf(x) < TurnOf(y)
    \/ TurnOf(x) = TurnOf(y) /\ x.role = "user" /\ y.role = "assistant"

\* C14: within one browser session that sends text messages m1..mn to its
\* active chat session, the Message rows of the session are created in send
\* order: the user row of mi before the assistant row of mi, both before
\* the user row of m(i+1), and the user row of m(i+1) only when the handler
\* of mi has finished.
StrictSendOrder ==
    \A b \in Browsers :
        OnlyTexts(b) =>
            LET rows == Message_list_by_session(db, ChatOf[b])
            IN  /\ \A i \in 1..Len(rows) : \A j \in 1..Len(rows) :
                       i < j => InSendOrder(rows[i], rows[j])
                /\ \A j \in 1..Len(rows) :
                       rows[j].role = "assistant" =>
                           \E i \in 1..(j - 1) :
                               /\ rows[i].role = "user"
                               /\ TurnOf(rows[i]) = TurnOf(rows[j])
                /\ \A i \in 1..Len(rows) :
                       rows[i].role = "user" => loop.done[b] >= TurnOf(rows[i]) - 1

\* two text messages of one browser session have been handled and answered,
\* with a message of the other browser session handled as well
StrictSendOrderWitness ==
    /\ OnlyTexts("b1")
    /\ loop.done["b1"] = MaxMessages + 1
    /\ Len(Message_list_by_session(db, ChatOf["b1"])) = 2 * (MaxMessages + 1)
    /\ loop.done["b2"] = 1

\* ----------------------------------------------------- pool specification
\* The handlers of two browser sessions call get_pool and close_pool of
\* src/db/connection.py. Each of the two has one await, asyncpg.create_pool
\* and Pool.close, where the caller gives the thread up and the other
\* handler may run.
MaxPoolCalls == 4

InitPool ==
    /\ InitPwIdle
    /\ db = EmptyDb
    /\ ret = NoCall
    /\ conn = IdleConns
    /\ DB_URL \in {"set", "unset"}
    /\ user_session = [b \in Browsers |-> FreshSession(NoUser)]
    /\ public = {}
    /\ handled = NoEvent
    /\ InitRagIdle

PoolFrame == UNCHANGED <<pwvars, dbvars, appvars, ragvars, loop, fmt, screen>>

\* a call of b has ended
PoolCallEnds(op, b, raised) ==
    [op |-> op, by |-> b, raised |-> raised, flip |-> ~pool.last.flip]

\* get_pool up to its await: the handle is there and is returned, or DB_URL
\* is unset and ValueError is raised, or create_pool is awaited
GetPool(b) ==
    /\ pool.call[b].pc = "idle"
    /\ pool.calls < MaxPoolCalls
    /\ pool' =
         IF pool._pool # None
         THEN [pool EXCEPT !.calls = @ + 1, !.given = @ \cup {pool._pool},
                           !.last = PoolCallEnds("get_pool", b, FALSE)]
         ELSE IF get_pool_raises
         THEN [pool EXCEPT !.calls = @ + 1,
                           !.last = PoolCallEnds("get_pool", b, TRUE)]
         ELSE [pool EXCEPT !.calls = @ + 1, !.call[b].pc = "creating"]
    /\ PoolFrame

\* create_pool comes back: _pool = <the new pool>; return _pool
GetPoolCreated(b) ==
    /\ pool.call[b].pc = "creating"
    /\ LET new == pool.created + 1
       IN  pool' = [pool EXCEPT !._pool = new, !.created = new,
                                !.open = @ \cup {new}, !.made = @ \cup {new},
                                !.given = @ \cup {new}, !.call[b].pc = "idle",
                                !.last = PoolCallEnds("get_pool", b, FALSE)]
    /\ PoolFrame

\* close_pool up to its await: nothing to do without a handle, else
\* Pool.close of the pool the handle names is awaited
ClosePool(b) ==
    /\ pool.call[b].pc = "idle"
    /\ pool.calls < MaxPoolCalls
    /\ pool' =
         IF pool._pool = None
         THEN [pool EXCEPT !.calls = @ + 1,
                           !.last = PoolCallEnds("close_pool", b, FALSE)]
         ELSE [pool EXCEPT !.calls = @ + 1, !.call[b].pc = "closing",
                           !.call[b].closes = pool._pool]
    /\ PoolFrame

\* Pool.close comes back: _pool = None
ClosePoolClosed(b) ==
    /\ pool.call[b].pc = "closing"
    /\ pool' = [pool EXCEPT !._pool = None,
                            !.open = @ \ {pool.call[b].closes},
                            !.made = {}, !.given = {},
                            !.call[b] = [pc |-> "idle", closes |-> None],
                            !.last = PoolCallEnds("close_pool", b, FALSE)]
    /\ PoolFrame

NextPool ==
    \E b \in Browsers :
        \/ GetPool(b)
        \/ GetPoolCreated(b)
        \/ ClosePool(b)
        \/ ClosePoolClosed(b)

SpecPool == InitPool /\ [][NextPool]_vars

\* a call of op ends in this step
PoolCallEnded(op) == pool'.last.flip # pool.last.flip /\ pool'.last.op = op

\* C13: between two close_pool calls at most one pool is created and every
\* caller of get_pool receives that pool, however the calls interleave; with
\* DB_URL unset get_pool raises and creates nothing; close_pool with no pool
\* changes nothing.
PoolSingleton ==
    /\ [](/\ Cardinality(pool.made) <= 1
          /\ Cardinality(pool.given) <= 1
          /\ pool.given \subseteq pool.made
          /\ DB_URL = "unset" => pool.created = 0)
    /\ [][/\ (PoolCallEnded("get_pool") /\ DB_URL = "unset")
                 => pool'.last.raised /\ pool'.open = pool.open
          /\ (PoolCallEnded("close_pool") /\ pool._pool = None
                  /\ \A b \in Browsers : pool.call[b].pc # "closing")
                 => /\ ~pool'.last.raised
                    /\ pool'._pool = None
                    /\ pool'.open = pool.open
                    /\ pool'.created = pool.created]_vars

\* ------------------------------------------------- profile specification
\* chat_profile of app_multiuser.py lists the profiles of the logged-in
\* user, and the Load button of the management panel loads one of the user's
\* chats. The first user has up to MaxListed chats titled Doc or Report,
\* created one after the other; one of them may then get a message or be
\* deleted, and then either the profiles are listed or a chat is loaded.
MaxListed == 6
RecentShown == 5

Doc == <<"D", "o", "c">>
Report == <<"R", "e", "p", "o", "r", "t">>
ManageChatsProfile ==
    <<"m", "a", "n", "a", "g", "e", "_", "c", "h", "a", "t", "s">>

\* str(n) of a natural number
RECURSIVE DecimalOf(_)
DecimalOf(n) ==
    LET digit == <<"0", "1", "2", "3", "4", "5", "6", "7", "8", "9">>[(n % 10) + 1]
    IN  IF n < 10 THEN <<digit>> ELSE Append(DecimalOf(n \div 10), digit)

\* sessions[:5]
MostRecent(sessions) ==
    SubSeq(sessions, 1, IF Len(sessions) < RecentShown THEN Len(sessions)
                        ELSE RecentShown)

profile_names_number_all(sessions) ==
    [k \in 1..Len(sessions) |->
        sessions[k].title \o <<" ", "(">>
            \o DecimalOf(Cardinality({j \in 1..k : sessions[j].title = sessions[k].title}))
            \o <<")">>]

\* the loop over title_counts, in chat_profile and again in
\* load_chat_by_profile_name: the name of the k-th session is its title when
\* the title has not come before, and f"{title} ({title_counts[title]})"
\* with the count so far when it has
profile_names(sessions) ==
    [k \in 1..Len(sessions) |->
        LET title == sessions[k].title
            title_counts == Cardinality({j \in 1..k : sessions[j].title = title})
        IN  IF title_counts = 1 THEN title
            ELSE title \o <<" ", "(">> \o DecimalOf(title_counts) \o <<")">>]

\* chat_profile: the names of the profiles it returns, in order
chat_profile(d, current_user) ==
    IF current_user.user_id = None THEN <<>>
    ELSE profile_names(MostRecent(ChatSession_list_by_user(d, current_user.user_id)))
             \o <<NewChatProfile, ManageChatsProfile>>

\* the first user's chats, created in the order of titles
RECURSIVE ProfileDb(_)
ProfileDb(titles) ==
    IF titles = <<>> THEN TwoUsersDb
    ELSE ChatSession_create(ProfileDb(SubSeq(titles, 1, Len(titles) - 1)), 1,
                            titles[Len(titles)]).db

TitleLists == UNION { [1..n -> {Doc, Report}] : n \in 0..MaxListed }

InitProfiles ==
    /\ InitPwIdle
    /\ InitRagIdle
    /\ db \in { ProfileDb(titles) : titles \in TitleLists }
    /\ ret = NoCall
    /\ conn = IdleConns
    /\ DB_URL = "set"
    /\ user_session = [b \in Browsers |->
           IF b = "b1" THEN [FreshSession(AuthUser(1)) EXCEPT !.stage = "ready"]
           ELSE FreshSession(NoUser)]
    /\ public = {}
    /\ handled = NoEvent

\* nothing has changed the chats since they were created, and no handler
\* has run
Untouched ==
    /\ db.seq.messages = 0
    /\ \A i \in DOMAIN db.chat_sessions : ~db.chat_sessions[i].is_deleted
    /\ ret = NoCall
    /\ handled = NoEvent

\* a message is stored in one of the chats, which makes it the most recent
ProfTouch(session_id) ==
    /\ Untouched
    /\ session_id \in DOMAIN db.chat_sessions
    /\ db' = Message_create(db, session_id, "user", Hello).db
    /\ UNCHANGED <<ret, conn, notdb>>

\* one of the chats is deleted from the management panel (soft delete)
ProfDelete(session_id) ==
    /\ Untouched
    /\ session_id \in DOMAIN db.chat_sessions
    /\ db' = ChatSession_delete(db, session_id, 1).db
    /\ UNCHANGED <<ret, conn, notdb>>

\* the framework asks chat_profile for the profiles of browser session b
ListProfiles(b) ==
    /\ ret = NoCall
    /\ handled = NoEvent
    /\ ret' = Call("chat_profile", <<b>>,
                   Returned(db, chat_profile(db, user_session[b].user)))
    /\ UNCHANGED <<db, conn, notdb>>

\* the Load button of the management panel, which shows every chat of the
\* user that is not deleted
ProfLoad(session_id) ==
    /\ handled = NoEvent
    /\ ret = NoCall
    /\ \E k \in 1..Len(ChatSession_list_by_user(db, 1)) :
           ChatSession_list_by_user(db, 1)[k].id = session_id
    /\ LoadChat("b1", session_id, "none")

NextProfiles ==
    \/ \E session_id \in 1..MaxListed : ProfTouch(session_id)
    \/ \E session_id \in 1..MaxListed : ProfDelete(session_id)
    \/ \E b \in Browsers : ListProfiles(b)
    \/ \E session_id \in 1..MaxListed : ProfLoad(session_id)

SpecProfiles == InitProfiles /\ [][NextProfiles]_vars

\* the chats of the first user that are not deleted
LiveChats == {i \in DOMAIN db.chat_sessions :
                 db.chat_sessions[i].user_id = 1 /\ ~db.chat_sessions[i].is_deleted}

\* the chats of the first user updated after chat i
MoreRecent(i) ==
    {j \in LiveChats : db.chat_sessions[j].updated_at > db.chat_sessions[i].updated_at}

\* the chat at place k of the listing: k - 1 chats are more recent
ChatAt(k) == CHOOSE i \in LiveChats : Cardinality(MoreRecent(i)) = k - 1

\* the number of listed chats
Shown == IF Cardinality(LiveChats) < RecentShown THEN Cardinality(LiveChats)
         ELSE RecentShown

\* which occurrence of its title the chat at place k is, most recent first
OccurrenceOf(k) ==
    Cardinality({j \in 1..k :
        db.chat_sessions[ChatAt(j)].title = db.chat_sessions[ChatAt(k)].title})

\* the name the profile listing gives the chat at place k
DisplayName(k) ==
    LET T == db.chat_sessions[ChatAt(k)].title
    IN  IF OccurrenceOf(k) = 1 THEN T
        ELSE IF OccurrenceOf(k) = 2 THEN T \o <<" ", "(", "2", ")">>
        ELSE IF OccurrenceOf(k) = 3 THEN T \o <<" ", "(", "3", ")">>
        ELSE IF OccurrenceOf(k) = 4 THEN T \o <<" ", "(", "4", ")">>
        ELSE T \o <<" ", "(", "5", ")">>

\* the listed chats are titled Doc, Doc, Report, most recent first
DocDocReport ==
    /\ Shown = 3
    /\ db.chat_sessions[ChatAt(1)].title = Doc
    /\ db.chat_sessions[ChatAt(2)].title = Doc
    /\ db.chat_sessions[ChatAt(3)].title = Report

\* chat_profile has just been asked for the first user's profiles
Listed == ret.op = "chat_profile" /\ ret.args = <<"b1">>

\* C15: the profiles are the user's 5 most recently updated chats that are
\* not deleted, most recent first; the first chat with a title T is named T
\* and the k-th (k >= 2) is named "T (k)"; new_chat and manage_chats follow
\* them. Chats titled Doc, Doc, Report are named Doc, Doc (2), Report.
ProfileNameDisambiguation ==
    Listed =>
        /\ Len(ret.result) = Shown + 2
        /\ \A k \in 1..Shown : ret.result[k] = DisplayName(k)
        /\ ret.result[Shown + 1] = NewChatProfile
        /\ ret.result[Shown + 2] = ManageChatsProfile
        /\ DocDocReport =>
               ret.result = << <<"D", "o", "c">>,
                               <<"D", "o", "c", " ", "(", "2", ")">>,
                               <<"R", "e", "p", "o", "r", "t">>,
                               NewChatProfile, ManageChatsProfile >>

\* the profiles were listed for more than 5 chats of which one title comes
\* three times among the listed ones
ProfileNameDisambiguationWitness ==
    /\ Listed
    /\ Cardinality(LiveChats) > RecentShown
    /\ \E k \in 1..Shown : OccurrenceOf(k) = 3

\* the Load button has just loaded the chat at place k of the listing
Loaded(k) ==
    /\ HandlerRuns
    /\ handled'.name = "load_chat"
    /\ handled'.session_id = ChatAt(k)
    /\ ~handled'.raised

Whitespace == {" ", "\t", "\n"}
Digits == {"0", "1", "2", "3", "4", "5", "6", "7", "8", "9"}

\* the character of s at place i, or no character
At(s, i) == IF i \in 1..Len(s) THEN s[i] ELSE ""

\* how many characters of s from place i on are in class: what a greedy
\* \s* or \d+ takes
Run(s, i, class) ==
    IF i > Len(s) THEN 0
    ELSE CHOOSE n \in 0..(Len(s) - i + 1) :
             /\ \A k \in 0..(n - 1) : s[i + k] \in class
             /\ At(s, i + n) \notin class

\* the rules in the order of the code: 1 is ",\s*p\.\s*(\d+)\) ,
\* 2 is \(p\.\s*(\d+)\) , 3 is ",\s*p\.\s*(\d+)-(\d+)\) and
\* 4 is \(p\.\s*(\d+)-(\d+)\)
Rules == 1..4
Quoted_none(r) == FALSE

Quoted(r) == r \in {1, 3}
Ranged(r) == r \in {3, 4}

NoMatch == [end |-> 0, N |-> <<>>, M |-> <<>>]

\* the match of rule r that begins at place i of s: its last place and its
\* groups, or NoMatch
Match(r, s, i) ==
    LET opener == IF Quoted(r) THEN <<"\"", ",">> ELSE <<"(">>
        a == i + Len(opener)
        b == IF Quoted(r) THEN a + Run(s, a, Whitespace) ELSE a
        c == b + 2 + Run(s, b + 2, Whitespace)
        d == c + Run(s, c, Digits)
        e == d + 1
        f == e + Run(s, e, Digits)
        close == IF Ranged(r) THEN f ELSE d
    IN  IF /\ \A k \in 1..Len(opener) : At(s, i + k - 1) = opener[k]
           /\ At(s, b) = "p"
           /\ At(s, b + 1) = "."
           /\ d > c
           /\ Ranged(r) => At(s, d) = "-" /\ f > e
           /\ At(s, close) = ")"
        THEN [end |-> close, N |-> SubSeq(s, c, d - 1),
              M |-> IF Ranged(r) THEN SubSeq(s, e, f - 1) ELSE <<>>]
        ELSE NoMatch

\* the places of s where a match of rule r begins. A match holds no quote
\* and no opening parenthesis after its first character, so no two matches
\* of a rule overlap and re.sub replaces every one of them.
Matches(r, s) == {i \in 1..Len(s) : Match(r, s, i) # NoMatch}

\* the replacement templates: ", [p. \1](/public/P#page=\1)) for rule 1,
\* ([p. \1](/public/P#page=\1)) for rule 2, and the same with the label
\* p. \1-\2 for rules 3 and 4
Replacement(r, citation_path, m) ==
    (IF Quoted(r) THEN <<"\"", ",", " ">> ELSE <<"(">>)
        \o <<"[", "p", ".", " ">> \o m.N
        \o (IF Ranged(r) THEN <<"-">> \o m.M ELSE <<>>)
        \o <<"]", "(", "/", "p", "u", "b", "l", "i", "c", "/">> \o citation_path
        \o <<"#", "p", "a", "g", "e", "=">> \o m.N \o <<")", ")">>

\* the parts one after the other
RECURSIVE Concat(_)
Concat(parts) ==
    IF parts = <<>> THEN <<>> ELSE Head(parts) \o Concat(Tail(parts))

\* the matches of rule r in s, each as <<first place, last place>>
Spans(r, s) == { <<i, Match(r, s, i).end>> : i \in Matches(r, s) }

\* re.sub(rule r, template with citation_path, s): every match gives way to
\* its replacement, every other character stays
re_sub(r, citation_path, s) ==
    LET spans == Spans(r, s)
        first == { span[1] : span \in spans }
        inside == UNION { (span[1] + 1)..span[2] : span \in spans }
    IN  Concat([i \in 1..Len(s) |->
            IF i \in first THEN Replacement(r, citation_path, Match(r, s, i))
            ELSE IF i \in inside THEN <<>>
            ELSE <<s[i]>>])

\* which characters of re.sub's result a rule has written: those of the
\* replacements, and those an earlier rule had written
linked_after(r, citation_path, s, linked) ==
    LET spans == Spans(r, s)
        first == { span[1] : span \in spans }
        inside == UNION { (span[1] + 1)..span[2] : span \in spans }
    IN  Concat([i \in 1..Len(s) |->
            IF i \in first
            THEN [k \in 1..Len(Replacement(r, citation_path, Match(r, s, i))) |-> TRUE]
            ELSE IF i \in inside THEN <<>>
            ELSE <<linked[i]>>])

citation_path_prefers_name(f) ==
    IF Truthy(f.source_document_name) THEN f.source_document_name ELSE f.file_path

\* citation_path = file_path if file_path else source_document_name
citation_path(f) ==
    IF Truthy(f.file_path) THEN f.file_path ELSE f.source_document_name

\* "\n".join(parts)
Join(parts) ==
    Concat([k \in 1..Len(parts) |->
        IF k = 1 THEN parts[k] ELSE <<"\n">> \o parts[k]])

citation_text_truthy_indexes(i, source) ==
    DecimalOf(i) \o <<".", " ">>
        \o (IF Truthy(source.uri)
            THEN <<"[">> \o source.uri \o <<"]", "(">> \o source.uri \o <<")">>
            ELSE <<"S", "o", "u", "r", "c", "e", " ",
                   "D", "o", "c", "u", "m", "e", "n", "t">>)
        \o (IF /\ source.start_index # <<>> /\ source.start_index # <<0>>
               /\ source.end_index # <<>> /\ source.end_index # <<0>>
            THEN <<" ", "(", "I", "n", "d", "e", "x", "e", "s", ":", " ">>
                     \o DecimalOf(source.start_index[1]) \o <<"-">>
                     \o DecimalOf(source.end_index[1]) \o <<")">>
            ELSE <<>>)

\* the line of the i-th citation source: an index is <<>> when it is None
\* and <<n>> when it is n
citation_text(i, source) ==
    DecimalOf(i) \o <<".", " ">>
        \o (IF Truthy(source.uri)
            THEN <<"[">> \o source.uri \o <<"]", "(">> \o source.uri \o <<")">>
            ELSE <<"S", "o", "u", "r", "c", "e", " ",
                   "D", "o", "c", "u", "m", "e", "n", "t">>)
        \o (IF source.start_index # <<>> /\ source.end_index # <<>>
            THEN <<" ", "(", "I", "n", "d", "e", "x", "e", "s", ":", " ">>
                     \o DecimalOf(source.start_index[1]) \o <<"-">>
                     \o DecimalOf(source.end_index[1]) \o <<")">>
            ELSE <<>>)

\* "\n".join(citations): nothing without a source, else the header and a
\* line for each source
citations_block(sources) ==
    IF sources = <<>> THEN <<>>
    ELSE Join(<< <<"\n", "\n", "*", "*", "C", "i", "t", "a", "t", "i", "o", "n",
                   "s", ":", "*", "*">> >>
              \o [i \in 1..Len(sources) |-> citation_text(i, sources[i])])

\* the page numbers a citation of the drawn texts names
PageNumbers == {<<"3">>, <<"7">>, <<"1", "2">>}

\* a citation as the assistant writes it: ", p. N) or (p. N), with -M for
\* a range
Cite(quoted, N, M) ==
    (IF quoted THEN <<"\"", ",", " ">> ELSE <<"(">>)
        \o <<"p", ".", " ">> \o N
        \o (IF M = <<>> THEN <<>> ELSE <<"-">> \o M) \o <<")">>

Cites ==
    { Cite(quoted, N, M) :
          quoted \in BOOLEAN, N \in PageNumbers, M \in PageNumbers \cup {<<>>} }

\* text no rule matches: a word, a page reference with the comma inside
\* the quotes, a reference with nothing between the parentheses' p. and )
PlainPieces ==
    { <<"x", " ">>,
      <<",", "\"", " ", "p", ".", " ", "5", ")">>,
      <<"(", "p", ".", " ", ")">> }

\* citations with other blanks than one space: none, and a line break
OddCites ==
    { <<"(", "p", ".", "3", ")">>,
      <<"\"", ",", "p", ".", "\n", "7", "-", "1", "2", ")">> }

Pieces == Cites \cup PlainPieces \cup OddCites

AnswerTexts == { a \o b : a \in Pieces \cup {<<>>}, b \in Pieces }

DocPdf == <<"d", "o", "c", ".", "p", "d", "f">>

\* "{user_id}/{chat_session_id}/{name}" of get_citation_file_path
UserPath(name) == <<"1", "/", "1", "/">> \o name

\* the name of an uploaded file that holds a page range in parentheses
RangeInName == <<"(", "p", ".", " ", "1", "-", "2", ")">>

\* He said, "quote," p. 5)
QuoteCommaInside ==
    <<"H", "e", " ", "s", "a", "i", "d", ",", " ", "\"", "q", "u", "o", "t",
      "e", ",", "\"", " ", "p", ".", " ", "5", ")">>

\* He said, "quote", p. 5)
QuoteCommaOutside ==
    <<"H", "e", " ", "s", "a", "i", "d", ",", " ", "\"", "q", "u", "o", "t",
      "e", "\"", ",", " ", "p", ".", " ", "5", ")">>

Http == <<"h", "t", "t", "p", ":", "/", "/", "x">>

\* the most citation sources of a response
MaxCitations == 2

\* a citation source: its uri (None, empty or a text) and its indexes
Sources ==
    { [uri |-> uri, start_index |-> ix[1], end_index |-> ix[2]] :
          uri \in {NoneStr, Http},
          ix \in { << <<>>, <<>> >>, << <<0>>, <<20>> >>,
                   << <<10>>, <<20>> >>, << <<10>>, <<>> >> } }
        \cup { [uri |-> <<>>, start_index |-> <<>>, end_index |-> <<>>] }

SourceLists == UNION { [1..n -> Sources] : n \in 0..MaxCitations }

FmtCall(text, source_document_name, file_path, citations) ==
    [NoFmt EXCEPT !.pc = "start", !.text = text,
                  !.source_document_name = source_document_name,
                  !.file_path = file_path, !.citations = citations]

\* the calls of the two applications: app.py passes the name only,
\* app_multiuser.py the name and get_citation_file_path of it, and both pass
\* None when the chat has no document
FmtCalls ==
    { FmtCall(text, path[1], path[2], <<>>) :
          text \in AnswerTexts,
          path \in { <<NoneStr, NoneStr>>, <<DocName, NoneStr>>,
                     <<DocName, UserPath(DocName)>>,
                     <<RangeInName, NoneStr>> } }
      \cup
    { FmtCall(text, path[1], path[2], citations) :
          text \in {NoneStr, QuoteCommaInside, QuoteCommaOutside},
          path \in { <<NoneStr, NoneStr>>, <<DocPdf, NoneStr>>,
                     <<DocPdf, UserPath(DocPdf)>> },
          citations \in SourceLists }

InitFmt ==
    /\ InitPwIdle
    /\ db = EmptyDb
    /\ ret = NoCall
    /\ conn = IdleConns
    /\ DB_URL = "set"
    /\ user_session = [b \in Browsers |-> FreshSession(NoUser)]
    /\ public = {}
    /\ handled = NoEvent
    /\ poll = NoPoll
    /\ single_user = FreshSingle({})
    /\ loop = NoLoop
    /\ pool = NoPool
    /\ screen = NoScreen
    /\ fmt \in FmtCalls

FmtFrame == UNCHANGED <<pwvars, dbvars, appvars, ragvars, loop, pool, screen>>

\* answer_text = response.text or ""; citation_path; if citation_path and
\* answer_text
FmtStart ==
    /\ fmt.pc = "start"
    /\ LET answer_text == IF fmt.text = NoneStr THEN <<>> ELSE fmt.text
       IN  fmt' = [fmt EXCEPT
                      !.answer_text = answer_text,
                      !.linked = [i \in 1..Len(answer_text) |-> FALSE],
                      !.pc = IF Truthy(citation_path(fmt)) /\ answer_text # <<>>
                             THEN "rewriting" ELSE "citations",
                      !.rule = IF Truthy(citation_path(fmt)) /\ answer_text # <<>>
                               THEN 1 ELSE 0]
    /\ FmtFrame

\* answer_text = re.sub(rule r, ..., answer_text)
FmtRewrite(r) ==
    /\ fmt.pc = "rewriting"
    /\ fmt.rule = r
    /\ fmt' = [fmt EXCEPT
                  !.answer_text = re_sub(r, citation_path(fmt), fmt.answer_text),
                  !.linked = linked_after(r, citation_path(fmt), fmt.answer_text,
                                          fmt.linked),
                  !.pc = IF r = 4 THEN "citations" ELSE "rewriting",
                  !.rule = IF r = 4 THEN 0 ELSE r + 1]
    /\ FmtFrame

\* return answer_text + "\n".join(citations)
FmtReturn ==
    /\ fmt.pc = "citations"
    /\ fmt' = [fmt EXCEPT !.result = fmt.answer_text \o citations_block(fmt.citations),
                          !.pc = "returned"]
    /\ FmtFrame

NextFmt ==
    \/ FmtStart
    \/ \E r \in Rules : FmtRewrite(r)
    \/ FmtReturn

SpecFmt == InitFmt /\ [][NextFmt]_vars

\* format_response_with_citations has returned
FmtReturned == fmt.pc = "returned"

\* the citation path of the call
P == citation_path(fmt)

\* the link [p. label](/public/path#page=page)
PublicLink(label, path, page) ==
    <<"[", "p", ".", " ">> \o label
        \o <<"]", "(", "/", "p", "u", "b", "l", "i", "c", "/">> \o path
        \o <<"#", "p", "a", "g", "e", "=">> \o page \o <<")">>

\* He said, "quote," [p. 5](/public/doc.pdf#page=5))
QuoteCommaInsideLinked ==
    <<"H", "e", " ", "s", "a", "i", "d", ",", " ", "\"", "q", "u", "o", "t",
      "e", ",", "\"", " ", "[", "p", ".", " ", "5", "]", "(", "/", "p", "u",
      "b", "l", "i", "c", "/", "d", "o", "c", ".", "p", "d", "f", "#", "p",
      "a", "g", "e", "=", "5", ")", ")">>

\* He said, "quote", [p. 5](/public/doc.pdf#page=5))
QuoteCommaOutsideLinked ==
    <<"H", "e", " ", "s", "a", "i", "d", ",", " ", "\"", "q", "u", "o", "t",
      "e", "\"", ",", " ", "[", "p", ".", " ", "5", "]", "(", "/", "p", "u",
      "b", "l", "i", "c", "/", "d", "o", "c", ".", "p", "d", "f", "#", "p",
      "a", "g", "e", "=", "5", ")", ")">>

\* C17 as the claim states it: with a citation path, a quoted single-page
\* citation ending in p. N) comes out as [p. N](/public/P#page=N)) with the
\* text before it untouched, and He said, "quote," p. 5) with doc.pdf comes
\* out as He said, "quote," [p. 5](/public/doc.pdf#page=5)).
QuotedSinglePage ==
    (FmtReturned /\ Truthy(P)) =>
        /\ \A a \in PlainPieces \cup {<<>>} : \A N \in PageNumbers :
               fmt.text = a \o Cite(TRUE, N, <<>>) =>
                   fmt.answer_text =
                       a \o <<"\"", ",", " ">> \o PublicLink(N, P, N) \o <<")">>
        /\ (fmt.text = QuoteCommaInside /\ P = DocPdf) =>
               fmt.answer_text = QuoteCommaInsideLinked

\* the pieces the first rule leaves as they are
NotQuotedSingle == (Pieces \ {Cite(TRUE, N, <<>>) : N \in PageNumbers}) \cup {<<>>}

\* C17 amended: with a citation path, the first rule turns ", p. N) (the
\* comma after the closing quote) into ", [p. N](/public/P#page=N)) and
\* leaves the text before it untouched; He said, "quote", p. 5) with doc.pdf
\* comes out as He said, "quote", [p. 5](/public/doc.pdf#page=5)), and
\* He said, "quote," p. 5), with the comma inside the quotes, comes out
\* unchanged.
QuotedCommaPage ==
    /\ (fmt.pc = "rewriting" /\ fmt.rule = 2) =>
           \A a \in NotQuotedSingle : \A N \in PageNumbers :
               fmt.text = a \o Cite(TRUE, N, <<>>) =>
                   fmt.answer_text =
                       a \o <<"\"", ",", " ">> \o PublicLink(N, P, N) \o <<")">>
    /\ (FmtReturned /\ P = DocPdf) =>
           /\ fmt.text = QuoteCommaOutside =>
                  fmt.answer_text = QuoteCommaOutsideLinked
           /\ fmt.text = QuoteCommaInside =>
                  fmt.answer_text = QuoteCommaInside

\* He said, "quote", p. 5) has been formatted with the path doc.pdf
QuotedCommaPageWitness ==
    /\ FmtReturned
    /\ fmt.text = QuoteCommaOutside
    /\ P = DocPdf
    /\ fmt.result = QuoteCommaOutsideLinked

\* C18: with a citation path, every (p. N-M) comes out as
\* ([p. N-M](/public/P#page=N)), the anchor being N, and no rule rewrites
\* what an earlier rule has written.
PageRangeRewriting ==
    /\ (FmtReturned /\ Truthy(P)) =>
           \A a \in PlainPieces \cup {<<>>} :
               \A N \in PageNumbers : \A M \in PageNumbers :
                   fmt.text = a \o Cite(FALSE, N, M) =>
                       fmt.answer_text =
                           a \o <<"(">> \o PublicLink(N \o <<"-">> \o M, P, N)
                             \o <<")">>
    /\ fmt.pc = "rewriting" =>
           \A span \in Spans(fmt.rule, fmt.answer_text) :
               \A k \in span[1]..span[2] : ~fmt.linked[k]

\* the answer text of the call, "" for None
GivenText == IF fmt.text = NoneStr THEN <<>> ELSE fmt.text

\* C19: with neither a source document name nor a file path the answer text
\* is returned unchanged, followed by the citations block when there are
\* citation sources; with both, the links are made with the file path.
NoPathNoRewrite ==
    FmtReturned =>
        /\ (~Truthy(fmt.source_document_name) /\ ~Truthy(fmt.file_path)) =>
               /\ Len(fmt.result) >= Len(GivenText)
               /\ SubSeq(fmt.result, 1, Len(GivenText)) = GivenText
               /\ fmt.citations = <<>> => fmt.result = GivenText
        /\ (Truthy(fmt.source_document_name) /\ Truthy(fmt.file_path)) =>
               /\ \A a \in PlainPieces \cup {<<>>} : \A N \in PageNumbers :
                      fmt.text = a \o Cite(FALSE, N, <<>>) =>
                          fmt.result =
                              a \o <<"(">> \o PublicLink(N, fmt.file_path, N)
                                \o <<")">>
               /\ (fmt.text = QuoteCommaOutside /\ fmt.citations = <<>>) =>
                      fmt.result =
                          SubSeq(QuoteCommaOutside, 1, 18)
                              \o PublicLink(<<"5">>, fmt.file_path, <<"5">>)
                              \o <<")">>

\* a text with a citation has been formatted with no name and no path, and
\* there were citation sources
NoPathNoRewriteWitness ==
    /\ FmtReturned
    /\ fmt.source_document_name = NoneStr
    /\ fmt.file_path = NoneStr
    /\ fmt.text = QuoteCommaOutside
    /\ fmt.citations # <<>>
    /\ Len(fmt.result) > Len(fmt.text)

\* what the call appended to the rewritten answer text
AppendedBlock == SubSeq(fmt.result, Len(fmt.answer_text) + 1, Len(fmt.result))

\* the numbers of the drawn sources as text
IndexText(ix) ==
    IF ix = <<0>> THEN <<"0">> ELSE IF ix = <<10>> THEN <<"1", "0">> ELSE <<"2", "0">>

\* the line the claim gives source i
ClaimedLine(i, source) ==
    << <<"1">>, <<"2">>, <<"3">>, <<"4">> >>[i] \o <<".", " ">>
        \o (IF source.uri \in {NoneStr, <<>>}
            THEN <<"S", "o", "u", "r", "c", "e", " ",
                   "D", "o", "c", "u", "m", "e", "n", "t">>
            ELSE <<"[">> \o source.uri \o <<"]", "(">> \o source.uri \o <<")">>)
        \o (IF source.start_index = <<>> \/ source.end_index = <<>> THEN <<>>
            ELSE <<" ", "(", "I", "n", "d", "e", "x", "e", "s", ":", " ">>
                     \o IndexText(source.start_index) \o <<"-">>
                     \o IndexText(source.end_index) \o <<")">>)

\* the sources {uri http://x, 10, 20} and {no uri}
TwoSources ==
    << [uri |-> Http, start_index |-> <<10>>, end_index |-> <<20>>],
       [uri |-> NoneStr, start_index |-> <<>>, end_index |-> <<>>] >>

\* \n\n**Citations:**\n1. [http://x](http://x) (Indexes: 10-20)\n2. Source Document
TwoSourcesBlock ==
    <<"\n", "\n", "*", "*", "C", "i", "t", "a", "t", "i", "o", "n", "s", ":",
      "*", "*", "\n", "1", ".", " ", "[", "h", "t", "t", "p", ":", "/", "/",
      "x", "]", "(", "h", "t", "t", "p", ":", "/", "/", "x", ")", " ", "(",
      "I", "n", "d", "e", "x", "e", "s", ":", " ", "1", "0", "-", "2", "0",
      ")", "\n", "2", ".", " ", "S", "o", "u", "r", "c", "e", " ", "D", "o",
      "c", "u", "m", "e", "n", "t">>

\* C20: with n >= 1 citation sources the appended block is the line
\* "\n\n**Citations:**" and one line for each source in order, line i being
\* "i. ", then "[uri](uri)" or "Source Document", then " (Indexes: s-e)"
\* exactly when both indexes are there, 0 included; with no source nothing
\* is appended; the two sources of the example give the example's block.
CitationsBlock ==
    FmtReturned =>
        /\ Len(fmt.result) >= Len(fmt.answer_text)
        /\ SubSeq(fmt.result, 1, Len(fmt.answer_text)) = fmt.answer_text
        /\ fmt.citations = <<>> => AppendedBlock = <<>>
        /\ fmt.citations # <<>> =>
               LET lines == Split(AppendedBlock, "\n")
               IN  /\ Len(lines) = Len(fmt.citations) + 3
                   /\ lines[1] = <<>>
                   /\ lines[2] = <<>>
                   /\ lines[3] = <<"*", "*", "C", "i", "t", "a", "t", "i", "o",
                                   "n", "s", ":", "*", "*">>
                   /\ \A i \in 1..Len(fmt.citations) :
                          lines[i + 3] = ClaimedLine(i, fmt.citations[i])
        /\ fmt.citations = TwoSources => AppendedBlock = TwoSourcesBlock

\* the block of the example has been appended, and so has a block with a
\* source whose start index is 0
CitationsBlockWitness ==
    /\ FmtReturned
    /\ fmt.citations = TwoSources
    /\ AppendedBlock = TwoSourcesBlock

\* --------------------------------------------- session specification
\* One user's browser session starts under a selected profile, presses the
\* buttons of the management panel, and sends messages and files, while a
\* second browser session of the same user has a chat active and another
\* user has a chat of its own.

\* handle_registration: the welcome and the first question
handle_registration(w) ==
    [Send(Send(w, "welcome"), "step1") EXCEPT !.us.registration_step = "username"]

start_profile_first(w, fails) ==
    LET selected == w.us.chat_profile
    IN  IF selected = NewChatProfile THEN create_new_chat_flow(w, fails)
        ELSE IF selected = ManageChatsProfile THEN show_chat_management(w)
        ELSE IF w.us.user.registration_pending THEN handle_registration(w)
        ELSE Send(w, "authentication_required")

\* load_chat_by_profile_name: the first of the five most recent sessions
\* whose expected name is profile_name
load_chat_by_profile_name(w, profile_name, fails) ==
    LET user_id == get_current_user_id(w)
        current_session_id == w.us.chat_session_id
        sessions == MostRecent(ChatSession_list_by_user(w.db, user_id))
        expected_name == profile_names(sessions)
        hits == {k \in 1..Len(sessions) : expected_name[k] = profile_name}
        session == sessions[CHOOSE k \in hits : \A j \in hits : k <= j]
    IN  IF user_id = None THEN Send(w, "not_authenticated")
        ELSE IF hits = {} THEN Send(w, "chat_not_found")
        ELSE IF current_session_id = session.id THEN Send(w, "already_active")
        ELSE load_chat_by_id(w, session.id, fails)

\* load_or_create_chat
load_or_create_chat(w, fails) ==
    LET user_id == get_current_user_id(w)
        sessions == ChatSession_list_by_user(w.db, user_id)
    IN  IF user_id = None THEN Send(w, "not_authenticated")
        ELSE IF sessions # <<>> THEN load_chat_by_id(w, sessions[1].id, fails)
        ELSE create_new_chat_flow(w, fails)

\* start (on_chat_start)
start(w, fails) ==
    LET user == w.us.user
        selected == w.us.chat_profile
    IN  IF user = NoUser THEN Send(w, "authentication_required")
        ELSE IF user.registration_pending THEN handle_registration(w)
        ELSE IF selected = NewChatProfile THEN create_new_chat_flow(w, fails)
        ELSE IF selected = ManageChatsProfile THEN show_chat_management(w)
        ELSE IF Truthy(selected)
        THEN load_chat_by_profile_name(w, selected, fails)
        ELSE load_or_create_chat(w, fails)

\* The database the session specification starts from: the first user's
\* chat with its document and summary (id 1), the second user's chat with a
\* message (id 2), and a chat of the first user that was soft-deleted after
\* a message was written to it (id 3).
SeedDb ==
    LET theirs == ChatSession_create(FirstUsersChat.db, 2, NewChat)
        written == Message_create(theirs.db, theirs.result, "user", Hello)
        mine == ChatSession_create(written.db, 1, Doc)
        kept == Message_create(mine.db, mine.result, "user", Hello)
    IN  ChatSession_delete(kept.db, mine.result, 1).db

\* The first user with more chats than the panel shows.
CrowdedDb == ProfileDb([k \in 1..(PanelRows + 1) |-> Doc])

\* the database holds more chats than the panel shows
Crowded == Cardinality(DOMAIN db.chat_sessions) > PanelRows

\* the ids a button's payload may carry: every chat there has been, and
\* one more
PayloadIds == 1..(db.seq.chat_sessions + 1)

\* the ids the Rename and Delete buttons on the page of browser session b
\* carry, and the second user's chat in a payload made by hand
ButtonIds(b) == ({m.session_id : m \in screen[b]} \ {None}) \cup {2}

\* who logs in: the first user, or somebody whose identity carries the
\* registration-pending marker
Identities == {AuthUser(1), PendingUser(NoneStr)}

\* the profile the new browser session was started under: none, one of
\* the two fixed profiles, a name of the listing, or a name no chat has
SelectedProfiles(d, user) ==
    {NoneStr, <<"z">>} \cup Messages(chat_profile(d, user))

InitSession ==
    /\ InitPwIdle
    /\ InitRagIdle
    /\ db \in {SeedDb, CrowdedDb}
    /\ ret = NoCall
    /\ conn = IdleConns
    /\ DB_URL = "set"
    /\ user_session = [b \in Browsers |->
           IF b = "b1" /\ db = SeedDb
           THEN [FirstUsersChat.us EXCEPT !.stage = "ready"]
           ELSE FreshSession(NoUser)]
    /\ public = IF db = SeedDb THEN FirstUsersChat.public ELSE {}
    /\ handled = NoEvent

\* the handler that ran in browser session b leaves the world w and the
\* management messages w.screen on the page
Shows(b, w) ==
    /\ db' = w.db
    /\ user_session' = [user_session EXCEPT ![b] = [w.us EXCEPT !.stage = "ready"]]
    /\ public' = w.public
    /\ screen' = [screen EXCEPT ![b] = w.screen]
    /\ UNCHANGED <<DB_URL, ret, conn, pwvars, ragvars, loop, pool, fmt>>

\* the writes of the run are bounded: the chats and the clock
SessionRoom ==
    /\ db.seq.chat_sessions < SeedDb.seq.chat_sessions + MaxSessions
    /\ db.now < SeedDb.now + MaxSessions

\* Somebody logs in and the page opens under a profile: a new browser
\* session with an empty page, in which start runs. With more chats than
\* the panel shows, only the panel is opened.
SessionStart(b, user, profile, fails) ==
    /\ IF Crowded THEN profile = ManageChatsProfile /\ fails = "none"
       ELSE SessionRoom
    /\ LET opened == [db |-> db,
                      us |-> [FreshSession(user) EXCEPT !.chat_profile = profile],
                      public |-> public, sent |-> <<>>, raised |-> FALSE,
                      screen |-> {}]
           w == start(opened, fails)
       IN  /\ Shows(b, w)
           /\ handled' = Event("start", b, profile, w.sent, w.raised)

\* the Load button, or a load_chat action with any payload
SessionLoad(b, session_id, fails) ==
    /\ user_session[b].stage = "ready"
    /\ LET w == on_load_chat(World(b), session_id, fails)
       IN  /\ Shows(b, w)
           /\ handled' = Callback("load_chat", b, session_id, w.sent, w.raised)

\* the Rename button
SessionRename(b, session_id, current_title) ==
    /\ user_session[b].stage = "ready"
    /\ ~Crowded
    /\ LET w == on_rename_chat(World(b), session_id, current_title)
       IN  /\ Shows(b, w)
           /\ handled' = Callback("rename_chat", b, session_id, w.sent, w.raised)

\* the message typed after Rename was pressed: main, outside registration
SessionTitle(b, content) ==
    /\ user_session[b].stage = "ready"
    /\ user_session[b].registration_step = "None"
    /\ user_session[b].pending_rename_session_id # None
    /\ db.now < SeedDb.now + MaxSessions
    /\ LET w == main(World(b), <<>>, content, "none")
       IN  /\ Shows(b, w)
           /\ handled' = Event("message", b, content, w.sent, w.raised)

\* the Delete button
SessionDelete(b, session_id) ==
    /\ user_session[b].stage = "ready"
    /\ ~Crowded
    /\ LET w == on_delete_chat(World(b), session_id)
       IN  /\ Shows(b, w)
           /\ handled' = Callback("delete_chat", b, session_id, w.sent, w.raised)

NextSession ==
    \/ \E user \in Identities, fails \in {"none", "chat"} :
           \E profile \in SelectedProfiles(db, user) :
               SessionStart("b2", user, profile, fails)
    \/ \E id \in PayloadIds : SessionLoad("b2", id, "none")
    \/ \E id \in ButtonIds("b2") : SessionRename("b2", id, NewChat)
    \/ \E content \in Contents \cup {NewChatProfile} : SessionTitle("b2", content)
    \/ \E id \in ButtonIds("b2") : SessionDelete("b2", id)

SpecSession == InitSession /\ [][NextSession]_vars

\* this step is start running in a new browser session "b2", and no
\* exception leaves it
Started ==
    /\ HandlerRuns
    /\ handled'.name = "start"
    /\ handled'.browser = "b2"
    /\ ~handled'.raised

\* the step adds one chat of the first user, titled "New Chat", to the
\* database, changes no other, and makes it the active one of "b2" with a
\* remote handle that holds no file
CreatesNewChat ==
    LET created == db.seq.chat_sessions + 1
    IN  /\ DOMAIN db'.chat_sessions = DOMAIN db.chat_sessions \cup {created}
        /\ db'.chat_sessions[created].title = <<"N", "e", "w", " ", "C", "h", "a", "t">>
        /\ db'.chat_sessions[created].user_id = 1
        /\ ~db'.chat_sessions[created].is_deleted
        /\ \A i \in DOMAIN db.chat_sessions : db'.chat_sessions[i] = db.chat_sessions[i]
        /\ user_session'["b2"].chat_session_id = created
        /\ user_session'["b2"].chat_title = <<"N", "e", "w", " ", "C", "h", "a", "t">>
        /\ user_session'["b2"].gemini_chat = [files |-> <<>>, live |-> TRUE]

\* the step changes no row and makes chat i the active one of "b2"
LoadsChat(i) ==
    /\ db' = db
    /\ user_session'["b2"].chat_session_id = i
    /\ user_session'["b2"].chat_title = db.chat_sessions[i].title
    /\ user_session'["b2"].gemini_chat.live

\* the step changes no row and leaves "b2" without an active chat
NoChatActive ==
    /\ db' = db
    /\ user_session'["b2"].chat_session_id = None
    /\ user_session'["b2"].gemini_chat = NoChat

TypedMessage(b) ==
    /\ HandlerRuns
    /\ handled'.name = "message"
    /\ handled'.browser = b
    /\ user_session[b].registration_step = "None"

\* the step takes the message as the new title of the chat Rename was
\* pressed for: both markers are cleared, no message or document row is
\* written, the remote handle and the active chat are as they were, and the
\* only row that can change is that chat's, which gets the stripped text as
\* its title when the text is not blank and the chat is a live one of the
\* user's
TakenAsTitle(b) ==
    LET S == user_session[b].pending_rename_session_id
        me == user_session[b].user.user_id
        mine == /\ S \in DOMAIN db.chat_sessions
                /\ db.chat_sessions[S].user_id = me
                /\ ~db.chat_sessions[S].is_deleted
        title == Strip(handled'.input)
    IN  /\ user_session'[b].pending_rename_session_id = None
        /\ user_session'[b].pending_rename_old_title = NoneStr
        /\ db'.messages = db.messages
        /\ db'.documents = db.documents
        /\ public' = public
        /\ user_session'[b].gemini_chat = user_session[b].gemini_chat
        /\ user_session'[b].chat_session_id = user_session[b].chat_session_id
        /\ ~handled'.raised
        /\ \A i \in DOMAIN db.chat_sessions \ {S} :
               db'.chat_sessions[i] = db.chat_sessions[i]
        /\ IF mine /\ title # <<>>
           THEN /\ db'.chat_sessions[S].title = title
                /\ handled'.sent[1] = "renamed"
           ELSE /\ db'.chat_sessions = db.chat_sessions
                /\ handled'.sent[1] \in {"name_empty", "rename_failed"}

\* the step handles the message as a chat message: no title changes but by
\* an upload, and a text sent to an active chat that exists is persisted as
\* a user row of that chat
TakenAsChatMessage(b) ==
    LET active == user_session[b].chat_session_id
    IN  /\ user_session'[b].pending_rename_session_id = None
        /\ "processing" \notin Messages(handled'.sent) =>
               \A i \in DOMAIN db.chat_sessions :
                   db'.chat_sessions[i].title = db.chat_sessions[i].title
        /\ (handled'.input # <<>> /\ active \in DOMAIN db.chat_sessions
                /\ ~handled'.raised) =>
               \E m \in NewRows(db, db', active) :
                   /\ db'.messages[m].role = "user"
                   /\ db'.messages[m].content = handled'.input

\* C22: once Rename was pressed for a chat, outside registration, the next
\* typed message is taken as the new title and not as a chat message: no
\* message row is written and nothing goes to the remote handle; both
\* markers are cleared whether the title is blank, the update succeeds or the
\* ownership-checked update fails; the message typed after that is handled
\* as a chat message.
PendingRenameConsumesNext ==
    [][\A b \in Browsers :
          /\ (HandlerRuns /\ handled'.name = "rename_chat" /\ handled'.browser = b
                  /\ handled'.session_id # None) =>
                 /\ user_session'[b].pending_rename_session_id = handled'.session_id
                 /\ db' = db
          /\ TypedMessage(b) =>
                 IF user_session[b].pending_rename_session_id # None
                 THEN TakenAsTitle(b)
                 ELSE TakenAsChatMessage(b)]_vars

\* C22 witness: the second user pressed Rename on the first user's chat
\* while a chat of its own was active, and typed a title: the update
\* failed, the markers are cleared and the first user's chat has its title.
PendingRenameConsumesNextWitness ==
    /\ handled.name = "message"
    /\ handled.browser = "b2"
    /\ handled.input = <<"x">>
    /\ handled.sent # <<>>
    /\ handled.sent[1] = "rename_failed"
    /\ user_session["b2"].pending_rename_session_id = None
    /\ user_session["b2"].chat_session_id \in SessionsOf(db, 2)
    /\ db.chat_sessions[1].title = DocName

\* the document rows of chat session session_id that d holds and before
\* does not
NewDocuments(before, d, session_id) ==
    {i \in DOMAIN d.documents \ DOMAIN before.documents :
        d.documents[i].chat_session_id = session_id}

\* this step is main for a message with a file, sent in browser session b
\* to its active chat, and the file's summary was shown
UploadSucceeds(b) ==
    /\ TypedMessage(b)
    /\ user_session[b].pending_rename_session_id = None
    /\ "summary" \in Messages(handled'.sent)

\* C23: a successful upload-and-summarize in the active chat S adds one
\* document row and one message row, the assistant's summary, and no user
\* row with the instruction text; S's title in the database and in the
\* browser session's state becomes the name of the file, and the active
\* remote handle is replaced with one that holds that file and no other.
UploadAddsDocumentAndSummary ==
    [][\A b \in Browsers : UploadSucceeds(b) =>
          LET S == user_session[b].chat_session_id
              rows == NewRows(db, db', S)
              asked == {m \in rows : db'.messages[m].content = handled'.input}
              summaries == {m \in rows :
                               /\ db'.messages[m].role = "assistant"
                               /\ db'.messages[m].content = <<"s", "u", "m">>}
          IN  /\ Cardinality(NewDocuments(db, db', S)) = 1
              /\ DOMAIN db'.documents \ DOMAIN db.documents = NewDocuments(db, db', S)
              /\ \A i \in NewDocuments(db, db', S) :
                     db'.documents[i].filename = <<"d", ".", "p", "d", "f">>
              /\ Cardinality(summaries) = 1
              /\ \A m \in rows : db'.messages[m].role = "user" => m \in asked
              /\ handled'.input = <<>> => rows = summaries
              /\ DOMAIN db'.messages \ DOMAIN db.messages = rows
              /\ db'.chat_sessions[S].title = <<"d", ".", "p", "d", "f">>
              /\ user_session'[b].chat_title = <<"d", ".", "p", "d", "f">>
              /\ user_session'[b].chat_session_id = S
              /\ user_session'[b].gemini_chat
                     = [files |-> << <<"d", ".", "p", "d", "f">> >>, live |-> TRUE]]_vars

\* C23 witness: the second user sent a file and no text to its chat, which
\* was titled "New Chat" and whose handle held no file: the summary is the
\* one message of the chat.
UploadAddsDocumentAndSummaryWitness ==
    /\ handled.name = "message"
    /\ handled.browser = "b2"
    /\ handled.input = <<>>
    /\ handled.sent = <<"processing", "processed", "summary">>
    /\ user_session["b2"].chat_session_id \in SessionsOf(db, 2)
    /\ Cardinality(RowsOf(db.messages, user_session["b2"].chat_session_id)) = 1
    /\ Cardinality(RowsOf(db.documents, user_session["b2"].chat_session_id)) = 1

\* this step is main for a message with a file, sent in browser session b
\* to its active chat, and the remote upload or the wait for the file to
\* become ACTIVE failed
UploadFails(b) ==
    /\ TypedMessage(b)
    /\ user_session[b].pending_rename_session_id = None
    /\ \/ "error_processing_upload" \in Messages(handled'.sent)
       \/ "error_processing_wait" \in Messages(handled'.sent)

\* C24: the document row is written only after the remote upload succeeded
\* and the file became ACTIVE: when either fails the error replaces the
\* "Processing" status message, no document row and no message row of the
\* upload is added, the chat's title and the active remote handle are as
\* they were, and the browser session takes the next input as before (a
\* message with a file alone leaves the database and the session's keys
\* unchanged; a text sent with the file is handled as a text).
UploadFailureLeavesNoRows ==
    [][\A b \in Browsers :
          /\ UploadFails(b) =>
                 LET S == user_session[b].chat_session_id
                 IN  /\ handled'.sent[1] = "processing"
                     /\ handled'.sent[2] \in {"error_processing_upload",
                                              "error_processing_wait"}
                     /\ db'.documents = db.documents
                     /\ \A i \in DOMAIN db.chat_sessions :
                            /\ i \in DOMAIN db'.chat_sessions
                            /\ db'.chat_sessions[i].title = db.chat_sessions[i].title
                     /\ user_session'[b].chat_title = user_session[b].chat_title
                     /\ user_session'[b].chat_session_id = S
                     /\ user_session[b].gemini_chat.live =>
                            user_session'[b].gemini_chat = user_session[b].gemini_chat
                     /\ \A m \in DOMAIN db'.messages \ DOMAIN db.messages :
                            db'.messages[m].content \in {handled'.input, <<"o", "k">>}
                     /\ handled'.input = <<>> =>
                            /\ db' = db
                            /\ user_session'[b] = user_session[b]
          /\ (TypedMessage(b) /\ DOMAIN db'.documents # DOMAIN db.documents) =>
                 /\ "processed" \in Messages(handled'.sent)
                    \/ "error_processing" \in Messages(handled'.sent)
                 /\ "error_processing_upload" \notin Messages(handled'.sent)
                 /\ "error_processing_wait" \notin Messages(handled'.sent)]_vars

\* C24 witness: the second user sent a file alone to its chat and the wait
\* for the file to become ACTIVE failed: the chat has no document and no
\* message, and the copy of the file is under public/.
UploadFailureLeavesNoRowsWitness ==
    /\ handled.name = "message"
    /\ handled.browser = "b2"
    /\ handled.input = <<>>
    /\ handled.sent = <<"processing", "error_processing_wait">>
    /\ user_session["b2"].chat_session_id \in SessionsOf(db, 2)
    /\ RowsOf(db.messages, user_session["b2"].chat_session_id) = {}
    /\ RowsOf(db.documents, user_session["b2"].chat_session_id) = {}
    /\ SessionDir(public, 2, user_session["b2"].chat_session_id) # {}

\* C25: in every browser session the chat-management messages on the page
\* are the messages of the tracked list, each once: at most one panel, a
\* header and at most 10 rows with buttons, is on the page, every earlier
\* one having been removed before a redraw; after a Load action none is on
\* the page and the tracked list is empty.
PanelTracked ==
    \A b \in Browsers :
        LET tracked == user_session[b].management_messages
            rows == {m \in screen[b] : m.session_id # None}
        IN  /\ screen[b] = Messages(tracked)
            /\ Cardinality(Ids(screen[b])) = Len(tracked)
            /\ Cardinality(screen[b] \ rows) <= 1
            /\ Cardinality(rows) <= 10
            /\ \A m, n \in rows : m.session_id = n.session_id => m = n
            /\ (handled.name = "load_chat" /\ handled.browser = b) =>
                   screen[b] = {} /\ tracked = <<>>

\* C25 witness: Delete was pressed on a row of the panel and the panel was
\* drawn again, with the header and a row for a chat that is left.
PanelTrackedWitness ==
    /\ handled.name = "delete_chat"
    /\ handled.browser = "b2"
    /\ handled.sent = <<"deleted", "management">>
    /\ Cardinality(screen["b2"]) >= 2
    /\ handled.session_id \notin {m.session_id : m \in screen["b2"]}

\* this step is a Load action of browser session b, whose user is logged
\* in, for a chat that does not exist, is soft-deleted or is another user's
LoadsNoChatOfOwn(b) ==
    LET S == handled'.session_id
    IN  /\ HandlerRuns
        /\ handled'.name = "load_chat"
        /\ handled'.browser = b
        /\ user_session[b].user.user_id # None
        /\ \/ S \notin DOMAIN db.chat_sessions
           \/ db.chat_sessions[S].is_deleted
           \/ db.chat_sessions[S].user_id # user_session[b].user.user_id

\* C26: a session-load with an id that does not exist, is soft-deleted or
\* is owned by another user reports "not found" and leaves the active
\* session id, its title and the remote handle as they were; nothing of
\* that chat, no message and no document filename, is displayed.
LoadNotFoundChangesNothing ==
    [][\A b \in Browsers : LoadsNoChatOfOwn(b) =>
          /\ handled'.sent = <<"session_not_found">>
          /\ ~handled'.raised
          /\ user_session'[b].chat_session_id = user_session[b].chat_session_id
          /\ user_session'[b].chat_title = user_session[b].chat_title
          /\ user_session'[b].gemini_chat = user_session[b].gemini_chat
          /\ db' = db
          /\ public' = public]_vars

\* C26 witness: with a chat of its own active, the first user pressed Load
\* for its soft-deleted chat, which holds a message.
LoadNotFoundChangesNothingWitness ==
    /\ handled.name = "load_chat"
    /\ handled.browser = "b2"
    /\ handled.session_id \in DOMAIN db.chat_sessions
    /\ db.chat_sessions[handled.session_id].is_deleted
    /\ db.chat_sessions[handled.session_id].user_id = 1
    /\ RowsOf(db.messages, handled.session_id) # {}
    /\ handled.sent = <<"session_not_found">>
    /\ user_session["b2"].chat_session_id \in LiveChats
    /\ user_session["b2"].gemini_chat.live

\* the active chat of browser session b, when set, is a chat of its user
\* that exists and is not soft-deleted
ActiveChatIsOwn(b) ==
    LET S == user_session[b].chat_session_id
    IN  S # None =>
            /\ S \in DOMAIN db.chat_sessions
            /\ ~db.chat_sessions[S].is_deleted
            /\ db.chat_sessions[S].user_id = user_session[b].user.user_id

\* C27: at the end of every handler the active chat_session_id of a browser
\* session, when set, names a chat_sessions row that exists, is not
\* soft-deleted and is owned by the session's user, whatever new-chat, load,
\* rename, delete, upload and message events came before; so no message to
\* the active chat fails for lack of the session row.
ActiveSessionRowExists ==
    /\ [](\A b \in Browsers : ActiveChatIsOwn(b))
    /\ [][\A b \in Browsers :
             (TypedMessage(b) /\ user_session[b].chat_session_id # None)
                 => ~handled'.raised]_vars

\* the chat sessions that were created and are gone: only hard_delete
\* removes a chat_sessions row, and an id is never given out twice
HardDeletedSessions == (1..db.seq.chat_sessions) \ DOMAIN db.chat_sessions

\* C28: hard_delete is four statements on its connection, not one
\* transaction; yet however the statements of Message.create and the
\* Document.create calls of other connections fall between them, once
\* hard_delete(S, U) has returned true no message or document row with
\* chat_session_id S exists, in the state it returns in or in any later one.
HardDeleteLeavesNoRows ==
    /\ [][(CallEnds /\ ret'.op = "ChatSession.hard_delete" /\ ret'.result = TRUE) =>
             /\ ret'.args[1] \notin DOMAIN db'.chat_sessions
             /\ RowsOf(db'.messages, ret'.args[1]) = {}
             /\ RowsOf(db'.documents, ret'.args[1]) = {}]_vars
    /\ [](\A S \in HardDeletedSessions :
              /\ RowsOf(db.messages, S) = {}
              /\ RowsOf(db.documents, S) = {})

\* C28 witness: hard_delete of a chat has returned true while a
\* Message.create for that chat, on the other connection, is between its
\* INSERT and its UPDATE: the row it inserted is gone with the chat.
HardDeleteLeavesNoRowsWitness ==
    /\ ret.op = "ChatSession.hard_delete"
    /\ ret.result = TRUE
    /\ \E c \in Conns :
           /\ conn[c].pc = "msg_touch"
           /\ conn[c].session_id = ret.args[1]
           /\ conn[c].result \notin DOMAIN db.messages
    /\ ret.args[1] \in HardDeletedSessions

\* C29: for every chat X among the first user's 5 most recent ones,
\* opening the page under the name the profile listing gives X, with no
\* change to the database in between, loads X, whatever the titles are,
\* also a title that ends in " (N)" or is new_chat or manage_chats: the
\* names of the listed chats differ from each other and from the two fixed
\* profile names.
ProfileRoundTrip ==
    /\ [][(Started /\ user_session'["b2"].user.user_id = 1) =>
             \A k \in 1..Shown :
                 DisplayName(k) = handled'.input => LoadsChat(ChatAt(k))]_vars
    /\ [](\A j, k \in 1..Shown :
              /\ DisplayName(j) = DisplayName(k) => j = k
              /\ DisplayName(k)
                     \notin { <<"n", "e", "w", "_", "c", "h", "a", "t">>,
                              <<"m", "a", "n", "a", "g", "e", "_", "c", "h", "a", "t", "s">> })

\* ------------------------------------------- authentication specification
\* Users register with any username, email and password, and log in with a
\* username or an email and a password.

\* what User.authenticate returns when it returns None
NoIdentity == [id |-> None, username |-> NoneStr, email |-> NoneStr]

\* the rows the SELECT of User.authenticate matches: WHERE username = $1 OR
\* email = $1
MatchingUsers(d, username) ==
    {i \in DOMAIN d.users :
        d.users[i].username = username \/ d.users[i].email = username}

\* User.authenticate, where fetchrow handed back the matching row of id
\* row (None when no row matches); the statement has no ORDER BY, so with
\* two matching rows either can be the one
User_authenticate(d, username, password, row) ==
    IF row # None /\ verify_password(password, d.users[row].password_hash)
    THEN Returned([d EXCEPT !.users[row].last_login = Stamp(d), !.now = Stamp(d)],
                  [id |-> row, username |-> d.users[row].username,
                   email |-> d.users[row].email])
    ELSE Returned(d, NoIdentity)

\* a username that has no "@", and one that has the shape of an email
AuthUsernames == {<<"a">>, <<"b", "@", "x", ".", "c">>}

OtherPassword == Rep("b", MinPasswordLen)

InitAuth ==
    /\ InitPwIdle
    /\ InitAppIdle
    /\ db = EmptyDb
    /\ ret = NoCall
    /\ conn = IdleConns

\* register_user: User.create
AuthRegister(username, email, password) ==
    /\ LET r == User_create(db, username, email, password, Rep("0", 2 * SaltBytes))
       IN  /\ db' = r.db
           /\ ret' = Call("User.create", <<username, email, password>>, r)
    /\ UNCHANGED <<conn, notdb>>

\* auth_callback: User.authenticate
AuthLogin(username, password) ==
    /\ db.now < MaxClock
    /\ \E row \in IF MatchingUsers(db, username) = {} THEN {None}
                  ELSE MatchingUsers(db, username) :
           LET r == User_authenticate(db, username, password, row)
           IN  /\ db' = r.db
               /\ ret' = Call("User.authenticate", <<username, password>>, r)
    /\ UNCHANGED <<conn, notdb>>

NextAuth ==
    \/ \E username \in AuthUsernames, email \in Emails,
          password \in {GoodPassword, OtherPassword} :
           AuthRegister(username, email, password)
    \/ \E username \in AuthUsernames \cup Emails \cup {<<"z">>},
          password \in {GoodPassword, OtherPassword} :
           AuthLogin(username, password)

SpecAuth == InitAuth /\ [][NextAuth]_vars

\* user row i was registered with this password
PasswordOf(i, password) ==
    \E salt \in Salts : db.users[i].password_hash = hash_password(password, salt)

\* C30: for every registered user U with password P, whatever other users
\* are registered, authenticate(U.username, P) and authenticate(U.email, P)
\* return U's id, username and email and set U's last-login; an
\* authenticate call that fails changes no user row.
AuthenticateByNameOrEmail ==
    [][(CallEnds /\ ret'.op = "User.authenticate") =>
          /\ \A U \in DOMAIN db.users :
                 (/\ ret'.args[1] \in {db.users[U].username, db.users[U].email}
                  /\ PasswordOf(U, ret'.args[2])) =>
                     /\ ret'.result = [id |-> U, username |-> db.users[U].username,
                                       email |-> db.users[U].email]
                     /\ db'.users[U].last_login # None
                     /\ db'.users[U].last_login # db.users[U].last_login
          /\ ret'.result = NoIdentity => db'.users = db.users]_vars

====
